---- MODULE Spec2Model ----
(***************************************************************************)
(* InterviewRoom (src/unnamed/part_000): the interview session state       *)
(* machine of the browser client, with the microphone recorders, the       *)
(* session-protocol requests it has in flight and the continuations        *)
(* (promise callbacks, timeouts, recorder events) that are still pending.  *)
(* The backend is the environment: it answers each request it receives.    *)
(***************************************************************************)
EXTENDS Integers, Sequences, FiniteSets, TLC

\* ---- bounds of the model ----
MaxRecorders == 2
MaxSessions == 2
MaxQuestions == 3
MaxTimer == 2
MaxRuns == 2
MaxMicRecorders == 3
MaxTracks == 2
MaxPublished == 1

RecIds == 1..MaxRecorders
SessIds == 1..MaxSessions
RunIds == 1..MaxRuns
MicIds == 1..MaxMicRecorders

\* null (sessionId, weekData, sessionResults, mediaRecorderRef.current)
Null == 0
\* useState<string>("") of currentQuestion
NoQuestion == <<>>
\* the text of question idx of session sid
QuestionText(sid, idx) == <<sid, idx>>

VARIABLES
    \* React state of InterviewRoom
    hasStarted, hasFinished, isListening, currentQuestionIndex, timer,
    interviewState, sessionId, weekData, currentQuestion, sessionResults,
    apiConnectionError, isInitializing,
    \* refs
    mediaRecorderRef, audioChunksRef, audioRef,
    \* the MediaRecorders created by toggleMic, each with the continuation of
    \* the handleUserResponse call its onstop handler made
    rec, nRec,
    \* the pending initializeSession call
    initPc, initVia, initSid,
    \* the backend's sessions
    srv, nSess,
    \* the console: the callers of playTTSAudio whose call logged
    \* "Failed to play TTS audio" (0: initializeSession, i: the
    \* handleUserResponse call of recorder i)
    consoleErrors,
    \* the API client (interviewApi.ts): the operation called with the
    \* response the server gave it, and what the returned promise settled with
    apiCall, apiResult,
    \* AvatarVideo: refs and React state
    roomRef, isCreatingRef, hasSessionRef, isConnected, showAudioEnableButton,
    audioElementsRef,
    \* sessionStorage's avatarSessionToken and window.audioContext's state
    avatarSessionToken, audioContext,
    \* whether React holds the instance's mount effect, the runs of that
    \* effect (each with its isMounted and room locals and the position of
    \* its connectAvatar call) and the Room each run created
    mounted, run, nRun, room,
    \* the calls of disconnect(), speak() and enableAudio() in progress, the
    \* messages published to the rooms, and the play() promises of attached
    \* audio tracks that are unsettled
    disc, spk, published, plays, enable,
    \* MicControl: state, refs (micRecorderRef is its mediaRecorderRef),
    \* recorders and onSubmit calls
    recording, micRecorderRef, chunksRef, micRec, nMicRec, submitted

apiVars == <<apiCall, apiResult>>

avVars == <<roomRef, isCreatingRef, hasSessionRef, isConnected,
            showAudioEnableButton, audioElementsRef, avatarSessionToken,
            audioContext, mounted, run, nRun, room, disc, spk, published,
            plays, enable>>

\* the variables of the components other than InterviewRoom
\* MicControl: its recording state, its two refs, the recorders its
\* startRecording calls created and the blobs given to onSubmit
micVars == <<recording, micRecorderRef, chunksRef, micRec, nMicRec, submitted>>

otherVars == <<apiVars, avVars, micVars>>

vars == <<hasStarted, hasFinished, isListening, currentQuestionIndex, timer,
          interviewState, sessionId, weekData, currentQuestion, sessionResults,
          apiConnectionError, isInitializing,
          mediaRecorderRef, audioChunksRef, audioRef,
          rec, nRec, initPc, initVia, initSid, srv, nSess,
          consoleErrors, apiCall, apiResult, avVars, micVars>>

Phases == {"idle", "asking", "listening", "processing", "completing"}

\* a SubmitAnswerResponse, as far as handleUserResponse reads it
NoData == [is_complete |-> FALSE, next_question |-> NoQuestion, question_index |-> 0]

\* A recorder toggleMic created: st is the MediaRecorder ("pending" while
\* getUserMedia is awaited, "stopping" between stop() and the stop event), sid
\* the sessionId its onstop handler closed over, pc the position of the
\* handleUserResponse call that handler made, data and blob that call's
\* response and argument, nComplete and nResults the completeSession and
\* getSessionResults calls it has made.
NoRecorder == [st |-> "none", sid |-> Null, pc |-> "none", data |-> NoData,
               blob |-> <<>>, nComplete |-> 0, nResults |-> 0]

\* no API client call has been made
NoCall == [op |-> "none"]
NoResult == [kind |-> "none"]

\* an effect run that has not happened, and the Room it has not created
NoRun == [pc |-> "none", isMounted |-> FALSE, hasRoom |-> FALSE,
          announced |-> FALSE, nCreate |-> 0, nConnect |-> 0]
NoRoom == [state |-> "none", closing |-> FALSE, args |-> <<>>,
           timer |-> "none", nNotified |-> 0]

\* no disconnect(), speak() or enableAudio() call has been made
NoDisconnect == [pc |-> "idle", room |-> Null, last |-> "none",
                 repeated |-> FALSE]
NoSpeak == [pc |-> "idle", last |-> "none", text |-> ""]
\* a recorder startRecording has not created: st is "pending" while
\* getUserMedia is awaited, then the MediaRecorder's state; onstop says
\* whether stopRecording has set its onstop handler
NoMicRecorder == [st |-> "none", onstop |-> FALSE]
NoEnable == [pc |-> "idle", n |-> 0, resumed |-> FALSE, played |-> 0]

NoSession == [total |-> 0, idx |-> 0, complete |-> FALSE]

Init ==
    /\ hasStarted = FALSE
    /\ hasFinished = FALSE
    /\ isListening = FALSE
    /\ currentQuestionIndex = 0
    /\ timer = 0
    /\ interviewState = "idle"
    /\ sessionId = Null
    /\ weekData = Null
    /\ currentQuestion = NoQuestion
    /\ sessionResults = Null
    /\ apiConnectionError = FALSE
    /\ isInitializing = FALSE
    /\ mediaRecorderRef = Null
    /\ audioChunksRef = <<>>
    /\ audioRef = FALSE
    /\ rec = [i \in RecIds |-> NoRecorder]
    /\ nRec = 0
    /\ initPc = "none"
    /\ initVia = "none"
    /\ initSid = Null
    /\ srv = [s \in SessIds |-> NoSession]
    /\ nSess = 0
    /\ consoleErrors = {}
    /\ apiCall = NoCall
    /\ apiResult = NoResult
    /\ roomRef = Null
    /\ isCreatingRef = FALSE
    /\ hasSessionRef = FALSE
    /\ isConnected = FALSE
    /\ showAudioEnableButton = FALSE
    /\ audioElementsRef = <<>>
    /\ avatarSessionToken = FALSE
    /\ audioContext = "absent"
    /\ mounted = FALSE
    /\ run = [k \in RunIds |-> NoRun]
    /\ nRun = 0
    /\ room = [k \in RunIds |-> NoRoom]
    /\ disc = NoDisconnect
    /\ spk = NoSpeak
    /\ published = <<>>
    /\ plays = [pending |-> 0, last |-> "none"]
    /\ enable = NoEnable
    /\ recording = FALSE
    /\ micRecorderRef = Null
    /\ chunksRef = <<>>
    /\ micRec = [i \in MicIds |-> NoMicRecorder]
    /\ nMicRec = 0
    /\ submitted = <<>>


\* ---- the backend (environment) ----

\* The body the backend answers an accepted submitAnswer for session s with:
\* the answer to the last question completes the session, any other answer
\* advances it to the next question.
SubmitAccepted(s) ==
    IF srv[s].idx + 1 >= srv[s].total
    THEN [is_complete |-> TRUE, next_question |-> NoQuestion,
          question_index |-> srv[s].idx]
    ELSE [is_complete |-> FALSE, next_question |-> QuestionText(s, srv[s].idx + 1),
          question_index |-> srv[s].idx + 1]

\* ---- timer effect ----

\* mutant: the interval keeps running after the session finished
TimerEnabledWhileStarted == hasStarted

\* the condition under which the timer effect has an interval running
TimerEnabled == hasStarted /\ ~hasFinished

TimerStep(t) == t + 1

TimerTick ==
    /\ TimerEnabled
    /\ timer < MaxTimer
    /\ timer' = TimerStep(timer)
    /\ UNCHANGED <<hasStarted, hasFinished, isListening, currentQuestionIndex,
                   interviewState, sessionId, weekData, currentQuestion,
                   sessionResults, apiConnectionError, isInitializing,
                   mediaRecorderRef, audioChunksRef, audioRef,
                   rec, nRec, initPc, initVia, initSid, srv, nSess,
                   consoleErrors, otherVars>>

\* ---- initializeSession ----

\* the start screen is rendered while hasStarted is false; the results screen
\* while hasFinished and sessionResults; otherwise the interview room
StartScreen == ~hasStarted
ResultsScreen == hasStarted /\ hasFinished /\ sessionResults # Null
RoomScreen == hasStarted /\ ~(hasFinished /\ sessionResults # Null)

\* initializeSession up to its first await
InitializeSessionBegin(via) ==
    /\ isInitializing' = TRUE
    /\ apiConnectionError' = FALSE
    /\ initPc' = "create"
    /\ initVia' = via
    /\ initSid' = Null
    /\ UNCHANGED <<hasStarted, hasFinished, isListening, currentQuestionIndex,
                   timer, interviewState, sessionId, weekData, currentQuestion,
                   sessionResults, mediaRecorderRef, audioChunksRef, audioRef,
                   rec, nRec, srv, nSess,
                   consoleErrors, otherVars>>

\* the Initialize Session button: disabled while isInitializing, and not
\* clickable under the connection-error overlay
StartClick ==
    /\ StartScreen
    /\ ~isInitializing
    /\ ~apiConnectionError
    /\ InitializeSessionBegin("button")

\* the Try Again button of the connection-error overlay
RetryClick ==
    /\ StartScreen
    /\ apiConnectionError
    /\ InitializeSessionBegin("retry")

\* the Cancel button of the connection-error overlay
CancelClick ==
    /\ StartScreen
    /\ apiConnectionError
    /\ apiConnectionError' = FALSE
    /\ UNCHANGED <<hasStarted, hasFinished, isListening, currentQuestionIndex,
                   timer, interviewState, sessionId, weekData, currentQuestion,
                   sessionResults, isInitializing,
                   mediaRecorderRef, audioChunksRef, audioRef,
                   rec, nRec, initPc, initVia, initSid, srv, nSess,
                   consoleErrors, otherVars>>

\* mutant: the catch block of initializeSession leaves apiConnectionError as
\* it is
InitFailureErrorKept == apiConnectionError

\* the value the catch block of initializeSession gives apiConnectionError
InitFailureError == TRUE

\* catch and finally of initializeSession
InitializeSessionFailed ==
    /\ apiConnectionError' = InitFailureError
    /\ isInitializing' = FALSE
    /\ initPc' = "none"
    /\ initVia' = "none"
    /\ initSid' = Null

\* createInterviewSession resolves with a new session
CreateResolved ==
    /\ initPc = "create"
    /\ nSess < MaxSessions
    /\ \E total \in 1..MaxQuestions :
        /\ nSess' = nSess + 1
        /\ srv' = [srv EXCEPT ![nSess + 1] =
                      [total |-> total, idx |-> 0, complete |-> FALSE]]
        /\ sessionId' = nSess + 1
        /\ weekData' = nSess + 1
        /\ initSid' = nSess + 1
        /\ initPc' = "question"
    /\ UNCHANGED <<hasStarted, hasFinished, isListening, currentQuestionIndex,
                   timer, interviewState, currentQuestion, sessionResults,
                   apiConnectionError, isInitializing,
                   mediaRecorderRef, audioChunksRef, audioRef,
                   rec, nRec, initVia,
                   consoleErrors, otherVars>>

\* createInterviewSession rejects (non-success status, error detail, no session_id)
CreateRejected ==
    /\ initPc = "create"
    /\ InitializeSessionFailed
    /\ UNCHANGED <<hasStarted, hasFinished, isListening, currentQuestionIndex,
                   timer, interviewState, sessionId, weekData, currentQuestion,
                   sessionResults, mediaRecorderRef, audioChunksRef, audioRef,
                   rec, nRec, srv, nSess,
                   consoleErrors, otherVars>>

\* mutant: getQuestion is called with the id of the session before the one
\* createInterviewSession just returned
InitQuestionSessionPrevious == IF initSid > 1 THEN initSid - 1 ELSE initSid

\* the session id initializeSession passes to getQuestion
InitQuestionSession == initSid

\* getQuestion(response.session_id, 0) resolves
QuestionResolved ==
    /\ initPc = "question"
    /\ currentQuestion' = QuestionText(InitQuestionSession, 0)
    /\ currentQuestionIndex' = 0
    /\ initPc' = "tts"
    /\ UNCHANGED <<hasStarted, hasFinished, isListening, timer, interviewState,
                   sessionId, weekData, sessionResults, apiConnectionError,
                   isInitializing, mediaRecorderRef, audioChunksRef, audioRef,
                   rec, nRec, initVia, initSid, srv, nSess,
                   consoleErrors, otherVars>>

QuestionRejected ==
    /\ initPc = "question"
    /\ InitializeSessionFailed
    /\ UNCHANGED <<hasStarted, hasFinished, isListening, currentQuestionIndex,
                   timer, interviewState, sessionId, weekData, currentQuestion,
                   sessionResults, mediaRecorderRef, audioChunksRef, audioRef,
                   rec, nRec, srv, nSess,
                   consoleErrors, otherVars>>

\* what speakTTS settles with: a URL, inline base64 audio, a body with
\* neither, or a rejection
TtsKinds == {"url", "base64", "none", "reject"}

\* playTTSAudio calls play() on an audio element exactly for a URL or base64 body
TtsPlays(kind) == kind \in {"url", "base64"}

\* the end of initializeSession's try block, its finally, and the start
\* button's continuation (setHasStarted(true) on success)
InitializeSessionSucceeded ==
    /\ interviewState' = "idle"
    /\ apiConnectionError' = FALSE
    /\ isInitializing' = FALSE
    /\ hasStarted' = (IF initVia = "button" THEN TRUE ELSE hasStarted)
    /\ initPc' = "none"
    /\ initVia' = "none"
    /\ initSid' = Null

\* mutant: playTTSAudio lets a failure of speakTTS or of play() escape
PlayTTSAudioRethrows(failed) == failed

\* whether a failure inside playTTSAudio leaves it as an exception: its
\* catch block takes every failure of speakTTS and of play()
PlayTTSAudioThrows(failed) == FALSE

\* the caller of playTTSAudio in initializeSession
InitCaller == 0

\* console.error of playTTSAudio's catch block
LogPlaybackFailure(caller, failed) ==
    IF failed THEN consoleErrors \cup {caller} ELSE consoleErrors

\* initializeSession after its await of playTTSAudio
InitPlaybackReturned(failed) ==
    IF PlayTTSAudioThrows(failed)
    THEN /\ InitializeSessionFailed
         /\ UNCHANGED <<hasStarted, interviewState>>
    ELSE InitializeSessionSucceeded

\* speakTTS of playTTSAudio(question_text) settles
InitTtsSettled ==
    /\ initPc = "tts"
    /\ \E kind \in TtsKinds :
        /\ consoleErrors' = LogPlaybackFailure(InitCaller, kind = "reject")
        /\ IF TtsPlays(kind)
           THEN /\ audioRef' = TRUE
                /\ initPc' = "play"
                /\ UNCHANGED <<hasStarted, interviewState, apiConnectionError,
                               isInitializing, initVia, initSid>>
           ELSE /\ InitPlaybackReturned(kind = "reject")
                /\ UNCHANGED audioRef
    /\ UNCHANGED <<hasFinished, isListening, currentQuestionIndex, timer,
                   sessionId, weekData, currentQuestion, sessionResults,
                   mediaRecorderRef, audioChunksRef, rec, nRec, srv, nSess,
                   otherVars>>

\* audio.play() of playTTSAudio settles, resolved or rejected
InitPlaySettled ==
    /\ initPc = "play"
    /\ \E failed \in BOOLEAN :
        /\ consoleErrors' = LogPlaybackFailure(InitCaller, failed)
        /\ InitPlaybackReturned(failed)
    /\ UNCHANGED <<hasFinished, isListening, currentQuestionIndex, timer,
                   sessionId, weekData, currentQuestion, sessionResults,
                   mediaRecorderRef, audioChunksRef, audioRef,
                   rec, nRec, srv, nSess, otherVars>>

\* ---- toggleMic ----

\* the record IconButton is rendered in the interview room and disabled
\* while the phase is completing
MicButtonEnabled == RoomScreen /\ interviewState # "completing"

\* the early return of toggleMic
ToggleMicIgnores == interviewState = "asking" \/ interviewState = "completing"

\* MediaRecorder.state !== "inactive"
RecorderActive(i) == rec[i].st = "recording"

\* a mic tap that toggleMic ignores
MicTapIgnored ==
    /\ MicButtonEnabled
    /\ ToggleMicIgnores
    /\ UNCHANGED vars

\* a mic tap with isListening false: toggleMic up to its await of getUserMedia
MicTapStart ==
    /\ MicButtonEnabled
    /\ ~ToggleMicIgnores
    /\ ~isListening
    /\ nRec < MaxRecorders
    /\ isListening' = TRUE
    /\ interviewState' = "listening"
    /\ nRec' = nRec + 1
    /\ rec' = [rec EXCEPT ![nRec + 1] =
                  [NoRecorder EXCEPT !.st = "pending", !.sid = sessionId]]
    /\ UNCHANGED <<hasStarted, hasFinished, currentQuestionIndex, timer,
                   sessionId, weekData, currentQuestion, sessionResults,
                   apiConnectionError, isInitializing,
                   mediaRecorderRef, audioChunksRef, audioRef,
                   initPc, initVia, initSid, srv, nSess,
                   consoleErrors, otherVars>>

\* a mic tap with isListening true: the else branch of toggleMic
MicTapStop ==
    /\ MicButtonEnabled
    /\ ~ToggleMicIgnores
    /\ isListening
    /\ isListening' = FALSE
    /\ interviewState' = "processing"
    /\ rec' = IF mediaRecorderRef # Null /\ RecorderActive(mediaRecorderRef)
              THEN [rec EXCEPT ![mediaRecorderRef].st = "stopping"]
              ELSE rec
    /\ UNCHANGED <<hasStarted, hasFinished, currentQuestionIndex, timer,
                   sessionId, weekData, currentQuestion, sessionResults,
                   apiConnectionError, isInitializing,
                   mediaRecorderRef, audioChunksRef, audioRef,
                   nRec, initPc, initVia, initSid, srv, nSess,
                   consoleErrors, otherVars>>

\* getUserMedia resolves: the recorder is created, installed in
\* mediaRecorderRef and started, and the chunk buffer is emptied
GetUserMediaResolved(i) ==
    /\ rec[i].st = "pending"
    /\ mediaRecorderRef' = i
    /\ audioChunksRef' = <<>>
    /\ rec' = [rec EXCEPT ![i].st = "recording"]
    /\ UNCHANGED <<hasStarted, hasFinished, isListening, currentQuestionIndex,
                   timer, interviewState, sessionId, weekData, currentQuestion,
                   sessionResults, apiConnectionError, isInitializing, audioRef,
                   nRec, initPc, initVia, initSid, srv, nSess,
                   consoleErrors, otherVars>>

\* mutant: the catch block of toggleMic leaves the phase as it is
MicFailurePhaseKept == interviewState

\* the phase the catch block of toggleMic sets
MicFailurePhase == "idle"

\* getUserMedia rejects: the catch block of toggleMic
GetUserMediaRejected(i) ==
    /\ rec[i].st = "pending"
    /\ isListening' = FALSE
    /\ interviewState' = MicFailurePhase
    /\ rec' = [rec EXCEPT ![i].st = "denied"]
    /\ UNCHANGED <<hasStarted, hasFinished, currentQuestionIndex, timer,
                   sessionId, weekData, currentQuestion, sessionResults,
                   apiConnectionError, isInitializing,
                   mediaRecorderRef, audioChunksRef, audioRef,
                   nRec, initPc, initVia, initSid, srv, nSess,
                   consoleErrors, otherVars>>

\* ondataavailable: a chunk is kept only if its size is positive
ChunksAfterData(i, size) ==
    IF size > 0 THEN Append(audioChunksRef, i) ELSE audioChunksRef

\* onstop calls handleUserResponse only when chunks were captured, and
\* handleUserResponse returns at once when its sessionId is null
SubmitsOnStop(i, chunks) == Len(chunks) > 0 /\ rec[i].sid # Null

\* the task MediaRecorder.stop() queued: the recorder's one dataavailable
\* event (start() was given no timeslice) and then its stop event, whose
\* handler releases the stream and calls handleUserResponse up to its await
\* of submitAnswer
RecorderStopped(i) ==
    /\ rec[i].st = "stopping"
    /\ \E size \in {0, 1} :
        LET chunks == ChunksAfterData(i, size) IN
        /\ audioChunksRef' = chunks
        /\ rec' = [rec EXCEPT ![i] =
                      IF SubmitsOnStop(i, chunks)
                      THEN [@ EXCEPT !.st = "inactive", !.pc = "submit",
                                     !.blob = chunks]
                      ELSE [@ EXCEPT !.st = "inactive"]]
    /\ UNCHANGED <<hasStarted, hasFinished, isListening, currentQuestionIndex,
                   timer, interviewState, sessionId, weekData, currentQuestion,
                   sessionResults, apiConnectionError, isInitializing,
                   mediaRecorderRef, audioRef,
                   nRec, initPc, initVia, initSid, srv, nSess,
                   consoleErrors, otherVars>>

\* ---- handleUserResponse ----

\* the backend accepts the submitAnswer of recorder i's recording and
\* produces its response; a session that is complete accepts no more answers
BackendAcceptsAnswer(i) ==
    /\ rec[i].pc = "submit"
    /\ ~srv[rec[i].sid].complete
    /\ LET s == rec[i].sid
           data == SubmitAccepted(s) IN
        /\ rec' = [rec EXCEPT ![i].pc = "answered", ![i].data = data]
        /\ srv' = [srv EXCEPT ![s].idx = data.question_index,
                              ![s].complete = data.is_complete]
    /\ UNCHANGED <<hasStarted, hasFinished, isListening, currentQuestionIndex,
                   timer, interviewState, sessionId, weekData, currentQuestion,
                   sessionResults, apiConnectionError, isInitializing,
                   mediaRecorderRef, audioChunksRef, audioRef,
                   nRec, initPc, initVia, initSid, nSess,
                   consoleErrors, otherVars>>

\* the branch handleUserResponse takes on a resolved submitAnswer
SubmitBranch(data) ==
    IF data.is_complete THEN "complete"
    ELSE IF data.next_question # NoQuestion THEN "next"
    ELSE "none"

\* mutant: a next question sets the phase to idle at once, skipping asking
PhaseAfterSubmitSkipsAsking(data) ==
    CASE SubmitBranch(data) = "complete" -> "completing"
      [] SubmitBranch(data) = "next" -> "idle"
      [] OTHER -> interviewState

\* the phase handleUserResponse sets on a resolved submitAnswer
PhaseAfterSubmit(data) ==
    CASE SubmitBranch(data) = "complete" -> "completing"
      [] SubmitBranch(data) = "next" -> "asking"
      [] OTHER -> interviewState

\* the question index handleUserResponse sets for a next question
NextQuestionIndex(data) == data.question_index

\* the try block of handleUserResponse after submitAnswer resolved with data
HandleSubmitData(i, data) ==
    /\ interviewState' = PhaseAfterSubmit(data)
    /\ currentQuestion' = IF SubmitBranch(data) = "next"
                          THEN data.next_question ELSE currentQuestion
    /\ currentQuestionIndex' = IF SubmitBranch(data) = "next"
                               THEN NextQuestionIndex(data)
                               ELSE currentQuestionIndex
    /\ rec' = [rec EXCEPT ![i].pc =
                  CASE SubmitBranch(data) = "complete" -> "delay"
                    [] SubmitBranch(data) = "next" -> "tts"
                    [] OTHER -> "done"]
    /\ UNCHANGED <<hasStarted, hasFinished, isListening, timer, sessionId,
                   weekData, sessionResults, apiConnectionError, isInitializing,
                   mediaRecorderRef, audioChunksRef, audioRef,
                   nRec, initPc, initVia, initSid, srv, nSess,
                   consoleErrors, otherVars>>

\* submitAnswer resolves with the response the backend produced
SubmitResolved(i) ==
    /\ rec[i].pc = "answered"
    /\ HandleSubmitData(i, rec[i].data)

\* submitAnswer resolves with an HTTP-success body that has neither
\* is_complete nor next_question (submitAnswer returns res.json() unchecked)
SubmitResolvedEmpty(i) ==
    /\ rec[i].pc = "submit"
    /\ HandleSubmitData(i, NoData)

\* mutant: the catch block of handleUserResponse leaves the phase as it is
SubmitFailurePhaseKept == interviewState

\* the phase the catch block of handleUserResponse sets
SubmitFailurePhase == "idle"

\* submitAnswer rejects (transport failure or non-success status), before
\* or after the backend processed the request: the catch block
SubmitRejected(i) ==
    /\ rec[i].pc \in {"submit", "answered"}
    /\ interviewState' = SubmitFailurePhase
    /\ rec' = [rec EXCEPT ![i].pc = "rejected"]
    /\ UNCHANGED <<hasStarted, hasFinished, isListening, currentQuestionIndex,
                   timer, sessionId, weekData, currentQuestion, sessionResults,
                   apiConnectionError, isInitializing,
                   mediaRecorderRef, audioChunksRef, audioRef,
                   nRec, initPc, initVia, initSid, srv, nSess,
                   consoleErrors, otherVars>>

\* only the recorder's continuation moves, to pc, which issues the request
\* (if any) that pc awaits
RecStep(i, pc) ==
    /\ rec' = [rec EXCEPT ![i].pc = pc,
                          ![i].nComplete = IF pc = "complete" THEN @ + 1 ELSE @,
                          ![i].nResults = IF pc = "results" THEN @ + 1 ELSE @]
    /\ UNCHANGED <<hasStarted, hasFinished, isListening, currentQuestionIndex,
                   timer, interviewState, sessionId, weekData, currentQuestion,
                   sessionResults, apiConnectionError, isInitializing,
                   mediaRecorderRef, audioChunksRef, audioRef,
                   nRec, initPc, initVia, initSid, srv, nSess,
                   consoleErrors, otherVars>>

\* mutant: the timeout callback fetches the results without completing the
\* session first
AfterCompletionDelaySkipsComplete == "results"

\* what the 2500 ms timeout callback does first
AfterCompletionDelay == "complete"

\* the 2500 ms timeout fires and calls completeSession(sessionId)
CompletionDelayElapsed(i) ==
    /\ rec[i].pc = "delay"
    /\ RecStep(i, AfterCompletionDelay)

\* where the timeout callback goes once completeSession resolved
AfterCompleteSession == "results"

\* completeSession resolves: getSessionResults(sessionId) is called
CompleteSessionResolved(i) ==
    /\ rec[i].pc = "complete"
    /\ RecStep(i, AfterCompleteSession)

\* completeSession rejects: the timeout callback ends (nothing catches it)
CompleteSessionRejected(i) ==
    /\ rec[i].pc = "complete"
    /\ RecStep(i, "completeFailed")

\* the results record setSessionResults stores
FetchedResults(i) == rec[i].sid

\* getSessionResults resolves: the results are stored and the session finished
ResultsResolved(i) ==
    /\ rec[i].pc = "results"
    /\ sessionResults' = FetchedResults(i)
    /\ hasFinished' = TRUE
    /\ rec' = [rec EXCEPT ![i].pc = "finished"]
    /\ UNCHANGED <<hasStarted, isListening, currentQuestionIndex, timer,
                   interviewState, sessionId, weekData, currentQuestion,
                   apiConnectionError, isInitializing,
                   mediaRecorderRef, audioChunksRef, audioRef,
                   nRec, initPc, initVia, initSid, srv, nSess,
                   consoleErrors, otherVars>>

\* getSessionResults rejects: the timeout callback ends
ResultsRejected(i) ==
    /\ rec[i].pc = "results"
    /\ RecStep(i, "resultsFailed")

\* handleUserResponse after its await of playTTSAudio: the 1000 ms timeout
\* is set, or the catch block runs
PlaybackReturned(i, failed) ==
    IF PlayTTSAudioThrows(failed)
    THEN /\ interviewState' = SubmitFailurePhase
         /\ rec' = [rec EXCEPT ![i].pc = "rejected"]
    ELSE /\ rec' = [rec EXCEPT ![i].pc = "timer"]
         /\ UNCHANGED interviewState

\* speakTTS of playTTSAudio(next_question) settles
TtsSettled(i) ==
    /\ rec[i].pc = "tts"
    /\ \E kind \in TtsKinds :
        /\ consoleErrors' = LogPlaybackFailure(i, kind = "reject")
        /\ IF TtsPlays(kind)
           THEN /\ audioRef' = TRUE
                /\ rec' = [rec EXCEPT ![i].pc = "play"]
                /\ UNCHANGED interviewState
           ELSE /\ PlaybackReturned(i, kind = "reject")
                /\ UNCHANGED audioRef
    /\ UNCHANGED <<hasStarted, hasFinished, isListening, currentQuestionIndex,
                   timer, sessionId, weekData, currentQuestion,
                   sessionResults, apiConnectionError, isInitializing,
                   mediaRecorderRef, audioChunksRef,
                   nRec, initPc, initVia, initSid, srv, nSess, otherVars>>

\* audio.play() settles, resolved or rejected
PlaySettled(i) ==
    /\ rec[i].pc = "play"
    /\ \E failed \in BOOLEAN :
        /\ consoleErrors' = LogPlaybackFailure(i, failed)
        /\ PlaybackReturned(i, failed)
    /\ UNCHANGED <<hasStarted, hasFinished, isListening, currentQuestionIndex,
                   timer, sessionId, weekData, currentQuestion,
                   sessionResults, apiConnectionError, isInitializing,
                   mediaRecorderRef, audioChunksRef, audioRef,
                   nRec, initPc, initVia, initSid, srv, nSess, otherVars>>

\* the 1000 ms timeout fires
IdleTimerFired(i) ==
    /\ rec[i].pc = "timer"
    /\ interviewState' = "idle"
    /\ rec' = [rec EXCEPT ![i].pc = "done"]
    /\ UNCHANGED <<hasStarted, hasFinished, isListening, currentQuestionIndex,
                   timer, sessionId, weekData, currentQuestion, sessionResults,
                   apiConnectionError, isInitializing,
                   mediaRecorderRef, audioChunksRef, audioRef,
                   nRec, initPc, initVia, initSid, srv, nSess,
                   consoleErrors, otherVars>>

\* ---- resetInterview ----

\* the button of the results screen
ResetInterview ==
    /\ ResultsScreen
    /\ hasStarted' = FALSE
    /\ hasFinished' = FALSE
    /\ currentQuestionIndex' = 0
    /\ timer' = 0
    /\ interviewState' = "idle"
    /\ sessionId' = Null
    /\ weekData' = Null
    /\ currentQuestion' = NoQuestion
    /\ sessionResults' = Null
    /\ apiConnectionError' = FALSE
    /\ isInitializing' = FALSE
    /\ audioRef' = FALSE
    /\ UNCHANGED <<isListening, mediaRecorderRef, audioChunksRef,
                   rec, nRec, initPc, initVia, initSid, srv, nSess,
                   consoleErrors, otherVars>>

\* ---- the state machine ----

Next ==
    \/ TimerTick
    \/ StartClick
    \/ RetryClick
    \/ CancelClick
    \/ CreateResolved
    \/ CreateRejected
    \/ QuestionResolved
    \/ QuestionRejected
    \/ InitTtsSettled
    \/ InitPlaySettled
    \/ MicTapIgnored
    \/ MicTapStart
    \/ MicTapStop
    \/ ResetInterview
    \/ \E i \in RecIds :
        \/ GetUserMediaResolved(i)
        \/ GetUserMediaRejected(i)
        \/ RecorderStopped(i)
        \/ BackendAcceptsAnswer(i)
        \/ SubmitResolved(i)
        \/ SubmitResolvedEmpty(i)
        \/ SubmitRejected(i)
        \/ CompletionDelayElapsed(i)
        \/ CompleteSessionResolved(i)
        \/ CompleteSessionRejected(i)
        \/ ResultsResolved(i)
        \/ ResultsRejected(i)
        \/ TtsSettled(i)
        \/ PlaySettled(i)
        \/ IdleTimerFired(i)

Spec == Init /\ [][Next]_vars

\* Every call that is outstanding settles, every timeout that is set fires
\* and every queued recorder event is delivered; the user's taps and clicks
\* are under no obligation.
Settles(i) ==
    \/ GetUserMediaResolved(i)
    \/ GetUserMediaRejected(i)
    \/ RecorderStopped(i)
    \/ BackendAcceptsAnswer(i)
    \/ SubmitResolved(i)
    \/ SubmitResolvedEmpty(i)
    \/ SubmitRejected(i)
    \/ CompletionDelayElapsed(i)
    \/ CompleteSessionResolved(i)
    \/ CompleteSessionRejected(i)
    \/ ResultsResolved(i)
    \/ ResultsRejected(i)
    \/ TtsSettled(i)
    \/ PlaySettled(i)
    \/ IdleTimerFired(i)

InitSettles ==
    \/ CreateResolved
    \/ CreateRejected
    \/ QuestionResolved
    \/ QuestionRejected
    \/ InitTtsSettled
    \/ InitPlaySettled

FairSpec ==
    /\ Spec
    /\ WF_vars(InitSettles)
    /\ \A i \in RecIds : WF_vars(Settles(i))

\* ---- the API client (src/api/interviewApi.ts) ----

roomVars == <<hasStarted, hasFinished, isListening, currentQuestionIndex, timer,
              interviewState, sessionId, weekData, currentQuestion,
              sessionResults, apiConnectionError, isInitializing,
              mediaRecorderRef, audioChunksRef, audioRef,
              rec, nRec, initPc, initVia, initSid, srv, nSess, consoleErrors>>

\* the operations that read the body of the response
ApiOps == {"createInterviewSession", "submitAnswer", "createAvatarSession",
           "getQuestion", "speakTTS", "completeSession", "getSessionResults"}

\* the fields of the success body each operation's response type declares
\* (detail apart)
BodyFields(op) ==
    CASE op = "createInterviewSession" -> {"session_id", "week", "total_questions"}
      [] op = "createAvatarSession" ->
            {"session_token", "session_id", "livekit_url", "livekit_token",
             "room_name"}
      [] op = "getQuestion" -> {"question_text", "question_index"}
      [] op = "submitAnswer" -> {"is_complete", "next_question", "question_index"}
      [] op = "speakTTS" -> {"audio_url", "audio_base64"}
      [] op = "completeSession" -> {"success"}
      [] op = "getSessionResults" -> {"performance_score", "mentor_feedback"}

\* the values of a body's detail field; "" stands for a body without one
\* (undefined and "" are both falsy)
Details == {"", "Concurrency limit reached", "CONCURRENCY LIMIT",
            "Too many sessions: concurrency Limit", "concurrency-limit",
            "Session not found"}

\* res.statusText of a non-success response ("" under HTTP/2)
StatusTexts == {"", "Service Unavailable", "Concurrency Limit Exceeded"}

\* what fetch settles with: a rejection (net false) or a Response with its
\* ok flag, status text and body; json says whether the body parses as JSON,
\* detail and fields are the parsed body
NetworkFailure ==
    [net |-> FALSE, ok |-> FALSE, statusText |-> "", json |-> FALSE,
     detail |-> "", fields |-> {}]

Responses(op) ==
    {NetworkFailure}
    \cup {[net |-> TRUE, ok |-> FALSE, statusText |-> t, json |-> FALSE,
            detail |-> "", fields |-> {}] : t \in StatusTexts}
    \cup {[net |-> TRUE, ok |-> TRUE, statusText |-> "OK", json |-> FALSE,
            detail |-> "", fields |-> {}]}
    \cup [net : {TRUE}, ok : {FALSE}, statusText : StatusTexts, json : {TRUE},
           detail : Details, fields : SUBSET BodyFields(op)]
    \cup [net : {TRUE}, ok : {TRUE}, statusText : {"OK"}, json : {TRUE},
           detail : Details, fields : SUBSET BodyFields(op)]

\* String.prototype.toLowerCase and String.prototype.includes
UpperCase == "ABCDEFGHIJKLMNOPQRSTUVWXYZ"
LowerCase == "abcdefghijklmnopqrstuvwxyz"

CharAt(str, k) == SubSeq(str, k, k)

LowerChar(c) ==
    IF \E k \in 1..Len(UpperCase) : CharAt(UpperCase, k) = c
    THEN CharAt(LowerCase, CHOOSE k \in 1..Len(UpperCase) : CharAt(UpperCase, k) = c)
    ELSE c

RECURSIVE toLowerCase(_)
toLowerCase(str) ==
    IF Len(str) = 0 THEN ""
    ELSE LowerChar(CharAt(str, 1)) \o toLowerCase(SubSeq(str, 2, Len(str)))

includes(str, part) ==
    \E k \in 1..(Len(str) - Len(part) + 1) :
        SubSeq(str, k, k + Len(part) - 1) = part

\* a || b on strings
OrElse(a, b) == IF a # "" THEN a ELSE b

\* a settled promise
Rejects(message, tagged) ==
    [kind |-> "rejected", message |-> message, isConcurrencyLimit |-> tagged,
     detail |-> "", fields |-> {}]

Resolves(res) ==
    [kind |-> "resolved", message |-> "", isConcurrencyLimit |-> FALSE,
     detail |-> res.detail, fields |-> res.fields]

\* the errors of fetch and of res.json()
FetchError == "TypeError: Failed to fetch"
JsonError == "SyntaxError: Unexpected token"

\* (await res.json().catch(() => ({ detail: res.statusText }))).detail
ErrorDetail(res) == IF res.json THEN res.detail ELSE res.statusText

\* the message thrown for a response that is not ok
NotOkMessage(res, failure) ==
    OrElse(ErrorDetail(res), failure \o ": " \o res.statusText)

\* fetch, the !res.ok check and return res.json(): the body is returned as
\* it was parsed
ReturnsBody(res, failure) ==
    IF ~res.net THEN Rejects(FetchError, FALSE)
    ELSE IF ~res.ok THEN Rejects(NotOkMessage(res, failure), FALSE)
    ELSE IF ~res.json THEN Rejects(JsonError, FALSE)
    ELSE Resolves(res)

createInterviewSession(res) ==
    IF ~res.net THEN Rejects(FetchError, FALSE)
    ELSE IF ~res.ok
    THEN Rejects(NotOkMessage(res, "Failed to create interview session"), FALSE)
    ELSE IF ~res.json THEN Rejects(JsonError, FALSE)
    ELSE IF res.detail # "" THEN Rejects(res.detail, FALSE)
    ELSE IF "session_id" \notin res.fields
    THEN Rejects("Missing session_id in response", FALSE)
    ELSE Resolves(res)

submitAnswer(res) == ReturnsBody(res, "Failed to submit answer")

\* mutant: the message is searched as it is, without toLowerCase
IsConcurrencyMessageCaseSensitive(message) ==
    includes(message, "concurrency limit")

\* errorMessage.toLowerCase().includes("concurrency limit")
IsConcurrencyMessage(message) ==
    includes(toLowerCase(message), "concurrency limit")

createAvatarSession(res) ==
    IF ~res.net THEN Rejects(FetchError, FALSE)
    ELSE IF ~res.ok
    THEN LET errorMessage == NotOkMessage(res, "Failed to create avatar session")
         IN Rejects(errorMessage, IsConcurrencyMessage(errorMessage))
    ELSE IF ~res.json THEN Rejects(JsonError, FALSE)
    ELSE IF res.detail # ""
    THEN Rejects(res.detail, IsConcurrencyMessage(res.detail))
    ELSE IF "livekit_url" \notin res.fields \/ "livekit_token" \notin res.fields
    THEN Rejects("Missing LiveKit connection details in response", FALSE)
    ELSE Resolves(res)

getQuestion(res) == ReturnsBody(res, "Failed to get question")

speakTTS(res) == ReturnsBody(res, "Failed to generate TTS")

completeSession(res) == ReturnsBody(res, "Failed to complete session")

getSessionResults(res) == ReturnsBody(res, "Failed to get session results")

\* what the promise of operation op settles with on response res
ClientResult(op, res) ==
    CASE op = "createInterviewSession" -> createInterviewSession(res)
      [] op = "submitAnswer" -> submitAnswer(res)
      [] op = "createAvatarSession" -> createAvatarSession(res)
      [] op = "getQuestion" -> getQuestion(res)
      [] op = "speakTTS" -> speakTTS(res)
      [] op = "completeSession" -> completeSession(res)
      [] op = "getSessionResults" -> getSessionResults(res)

Pending == [kind |-> "pending"]

\* an operation is called and the server gives its response
ApiCalled ==
    /\ apiResult # Pending
    /\ \E op \in ApiOps : \E res \in Responses(op) :
           apiCall' = [op |-> op, res |-> res]
    /\ apiResult' = Pending
    /\ UNCHANGED <<roomVars, avVars, micVars>>

\* the operation runs to its return or throw
ApiSettled ==
    /\ apiResult = Pending
    /\ apiResult' = ClientResult(apiCall.op, apiCall.res)
    /\ UNCHANGED <<apiCall, roomVars, avVars, micVars>>

ApiNext == ApiCalled \/ ApiSettled

ApiSpec == Init /\ [][ApiNext]_vars

\* the promise of a call of op has settled
Settled(op) == apiCall.op = op /\ apiResult.kind \in {"resolved", "rejected"}

\* ---- AvatarVideo (src/unnamed/part_001, lines 88-451) ----

nonAvVars == <<roomVars, apiVars, micVars>>

\* Room.state !== "disconnected": the room is connecting or connected
RoomActive(k) == room[k].state \in {"connecting", "connected"}

\* the data createAvatarSession resolved with in effect run k
SessionData(k) == [livekit_url |-> <<"url", k>>, livekit_token |-> <<"token", k>>]

\* mutant: room.connect is given the token first and the URL second
ConnectArgsSwapped(data) == <<data.livekit_token, data.livekit_url>>

\* the arguments of room.connect(data.livekit_url, data.livekit_token)
ConnectArgs(data) == <<data.livekit_url, data.livekit_token>>

\* sessionStorage.getItem("avatarSessionToken") is truthy
TokenCached == avatarSessionToken

\* the mount effect: returns early when a creation is in progress or a
\* session exists, or (marking the session) when a token is cached;
\* otherwise connectAvatar runs up to its await of createAvatarSession
EffectRun ==
    /\ ~mounted
    /\ nRun < MaxRuns
    /\ mounted' = TRUE
    /\ nRun' = nRun + 1
    /\ IF isCreatingRef \/ hasSessionRef
       THEN /\ run' = [run EXCEPT ![nRun + 1].pc = "skipped"]
            /\ UNCHANGED <<isCreatingRef, hasSessionRef>>
       ELSE IF TokenCached
       THEN /\ run' = [run EXCEPT ![nRun + 1].pc = "cached"]
            /\ hasSessionRef' = TRUE
            /\ UNCHANGED isCreatingRef
       ELSE /\ run' = [run EXCEPT ![nRun + 1] =
                          [@ EXCEPT !.pc = "creating", !.isMounted = TRUE,
                                    !.nCreate = @ + 1]]
            /\ isCreatingRef' = TRUE
            /\ UNCHANGED hasSessionRef
    /\ UNCHANGED <<roomRef, isConnected, showAudioEnableButton,
                   audioElementsRef, avatarSessionToken, audioContext, room,
                   disc, spk, published, plays, enable, nonAvVars>>

\* the effect run returned a cleanup function (it did not return early)
HasCleanup(k) == run[k].pc \notin {"none", "skipped", "cached"}

\* room.disconnect() is called on room k: the call is asynchronous, the
\* room closes later
RoomDisconnectCalled(k) ==
    [room EXCEPT ![k].closing = RoomActive(k)]

\* React cleans the effect up (unmount, or the simulated unmount of
\* StrictMode): isMounted = false and, if the run created a room,
\* room.disconnect() and roomRef.current = null
EffectCleanup ==
    /\ mounted
    /\ mounted' = FALSE
    /\ IF HasCleanup(nRun)
       THEN /\ run' = [run EXCEPT ![nRun].isMounted = FALSE]
            /\ IF run[nRun].hasRoom
               THEN /\ room' = RoomDisconnectCalled(nRun)
                    /\ roomRef' = Null
               ELSE UNCHANGED <<room, roomRef>>
       ELSE UNCHANGED <<run, room, roomRef>>
    /\ UNCHANGED <<isCreatingRef, hasSessionRef, isConnected,
                   showAudioEnableButton, audioElementsRef, avatarSessionToken,
                   audioContext, nRun, disc, spk, published, plays, enable,
                   nonAvVars>>

\* the catch block of connectAvatar
ConnectAvatarCatch(k, tagged) ==
    /\ isCreatingRef' = FALSE
    /\ run' = [run EXCEPT ![k].pc =
                  IF ~run[k].isMounted
                  THEN (IF tagged THEN "limitUnmounted" ELSE "abandoned")
                  ELSE IF tagged THEN "limit" ELSE "failed"]

\* onSessionCreated may store the session token in sessionStorage
ParentStoresToken == BOOLEAN

\* the responses the avatar endpoint gives the component: a network failure,
\* a concurrency-limit refusal, another refusal, a success body that lacks
\* the connection details, and a complete success body
AvatarResponses ==
    {NetworkFailure,
     [net |-> TRUE, ok |-> FALSE, statusText |-> "", json |-> TRUE,
      detail |-> "Concurrency limit reached", fields |-> {}],
     [net |-> TRUE, ok |-> FALSE, statusText |-> "Service Unavailable",
      json |-> FALSE, detail |-> "", fields |-> {}],
     [net |-> TRUE, ok |-> TRUE, statusText |-> "OK", json |-> TRUE,
      detail |-> "", fields |-> {"session_token", "session_id", "room_name"}],
     [net |-> TRUE, ok |-> TRUE, statusText |-> "OK", json |-> TRUE,
      detail |-> "", fields |-> BodyFields("createAvatarSession")]}

\* createAvatarSession of run k settles on response res
CreateSettledOn(k, res) ==
    LET out == createAvatarSession(res) IN
    IF out.kind = "rejected"
    THEN /\ ConnectAvatarCatch(k, out.isConcurrencyLimit)
         /\ UNCHANGED <<hasSessionRef, roomRef, room, avatarSessionToken>>
    ELSE IF ~run[k].isMounted
    THEN /\ run' = [run EXCEPT ![k].pc = "stale"]
         /\ UNCHANGED <<isCreatingRef, hasSessionRef, roomRef, room,
                        avatarSessionToken>>
    ELSE IF "livekit_url" \notin out.fields \/ "livekit_token" \notin out.fields
    THEN /\ isCreatingRef' = FALSE
         /\ run' = [run EXCEPT ![k].pc = "noDetails"]
         /\ UNCHANGED <<hasSessionRef, roomRef, room, avatarSessionToken>>
    ELSE /\ \E stores \in ParentStoresToken :
               avatarSessionToken' = (avatarSessionToken \/ stores)
         /\ hasSessionRef' = TRUE
         /\ roomRef' = k
         /\ room' = [room EXCEPT ![k] =
                        [@ EXCEPT !.state = "connecting",
                                  !.args = ConnectArgs(SessionData(k))]]
         /\ run' = [run EXCEPT ![k] =
                       [@ EXCEPT !.pc = "connecting", !.hasRoom = TRUE,
                                 !.announced = TRUE, !.nConnect = @ + 1]]
         /\ UNCHANGED isCreatingRef

CreateSettled(k) ==
    /\ run[k].pc = "creating"
    /\ \E res \in AvatarResponses : CreateSettledOn(k, res)
    /\ UNCHANGED <<isConnected, showAudioEnableButton, audioElementsRef,
                   audioContext, mounted, nRun, disc, spk, published, plays,
                   enable, nonAvVars>>

\* RoomEvent.Connected of room k: its handler sets isConnected and sets the
\* 500 ms timeout
RoomConnected(k) ==
    /\ room[k].state = "connecting"
    /\ ~room[k].closing
    /\ room' = [room EXCEPT ![k] = [@ EXCEPT !.state = "connected",
                                             !.timer = "pending"]]
    /\ isConnected' = TRUE
    /\ UNCHANGED <<roomRef, isCreatingRef, hasSessionRef,
                   showAudioEnableButton, audioElementsRef, avatarSessionToken,
                   audioContext, mounted, run, nRun, disc, spk, published,
                   plays, enable, nonAvVars>>

\* mutant: the timeout callback does not call onConnected
NotifiedSkipped(n) == n

\* onConnectedRef.current?.() is called
Notified(n) == n + 1

\* the 500 ms timeout of room k's Connected handler fires
NotifyTimerFired(k) ==
    /\ room[k].timer = "pending"
    /\ room' = [room EXCEPT ![k] = [@ EXCEPT !.timer = "fired",
                                             !.nNotified = Notified(@)]]
    /\ UNCHANGED <<roomRef, isCreatingRef, hasSessionRef, isConnected,
                   showAudioEnableButton, audioElementsRef, avatarSessionToken,
                   audioContext, mounted, run, nRun, disc, spk, published,
                   plays, enable, nonAvVars>>

\* room.connect of run k resolves (the room has connected)
ConnectResolved(k) ==
    /\ run[k].pc = "connecting"
    /\ room[k].timer # "none"
    /\ isCreatingRef' = FALSE
    /\ run' = [run EXCEPT ![k].pc = "done"]
    /\ UNCHANGED <<roomRef, hasSessionRef, isConnected, showAudioEnableButton,
                   audioElementsRef, avatarSessionToken, audioContext, mounted,
                   nRun, room, disc, spk, published, plays, enable, nonAvVars>>

\* the connection attempt of room k fails
RoomConnectFailed(k) ==
    /\ room[k].state = "connecting"
    /\ ~room[k].closing
    /\ room' = [room EXCEPT ![k].state = "disconnected"]
    /\ UNCHANGED <<roomRef, isCreatingRef, hasSessionRef, isConnected,
                   showAudioEnableButton, audioElementsRef, avatarSessionToken,
                   audioContext, mounted, run, nRun, disc, spk, published,
                   plays, enable, nonAvVars>>

\* room.connect of run k rejects (the attempt failed or was closed)
ConnectRejected(k) ==
    /\ run[k].pc = "connecting"
    /\ room[k].state = "disconnected"
    /\ room[k].timer = "none"
    /\ ConnectAvatarCatch(k, FALSE)
    /\ UNCHANGED <<roomRef, hasSessionRef, isConnected, showAudioEnableButton,
                   audioElementsRef, avatarSessionToken, audioContext, mounted,
                   nRun, room, disc, spk, published, plays, enable, nonAvVars>>

\* a room.disconnect() call on room k completes: the room is disconnected
\* and emits Disconnected
RoomClosed(k) ==
    /\ room[k].closing
    /\ room' = [room EXCEPT ![k] = [@ EXCEPT !.state = "disconnected",
                                             !.closing = FALSE]]
    /\ isConnected' = FALSE
    /\ UNCHANGED <<roomRef, isCreatingRef, hasSessionRef,
                   showAudioEnableButton, audioElementsRef, avatarSessionToken,
                   audioContext, mounted, run, nRun, disc, spk, published,
                   plays, enable, nonAvVars>>

\* the server or the network ends the connection of room k
RoomDropped(k) ==
    /\ room[k].state = "connected"
    /\ ~room[k].closing
    /\ room' = [room EXCEPT ![k].state = "disconnected"]
    /\ isConnected' = FALSE
    /\ UNCHANGED <<roomRef, isCreatingRef, hasSessionRef,
                   showAudioEnableButton, audioElementsRef, avatarSessionToken,
                   audioContext, mounted, run, nRun, disc, spk, published,
                   plays, enable, nonAvVars>>

\* ---- AvatarVideo: disconnect ----

\* mutant: disconnect() leaves hasSessionRef as it is
SessionFlagAfterDisconnectKept == hasSessionRef

\* hasSessionRef.current = false
SessionFlagAfterDisconnect == FALSE

\* the statements of disconnect() after its if block
DisconnectEnd ==
    /\ roomRef' = Null
    /\ isConnected' = FALSE
    /\ hasSessionRef' = SessionFlagAfterDisconnect
    /\ isCreatingRef' = FALSE
    /\ audioElementsRef' = <<>>

\* roomRef.current && roomRef.current.state === "connected"
HoldsConnectedRoom == roomRef # Null /\ room[roomRef].state = "connected"

\* the last call of disconnect() returned and nothing has changed what it
\* left
DisconnectReturned ==
    /\ disc.pc = "idle"
    /\ disc.last = "resolved"
    /\ roomRef = Null
    /\ ~isConnected
    /\ ~hasSessionRef
    /\ ~isCreatingRef
    /\ audioElementsRef = <<>>

\* disconnect() is called through the handle: with a connected room it calls
\* room.disconnect() and awaits it, otherwise it runs to its end at once
DisconnectCalled ==
    /\ mounted
    /\ disc.pc = "idle"
    /\ IF HoldsConnectedRoom
       THEN /\ room' = RoomDisconnectCalled(roomRef)
            /\ disc' = [pc |-> "awaiting", room |-> roomRef,
                        last |-> "pending", repeated |-> FALSE]
            /\ UNCHANGED <<roomRef, isConnected, hasSessionRef, isCreatingRef,
                           audioElementsRef>>
       ELSE /\ DisconnectEnd
            /\ disc' = [pc |-> "idle", room |-> Null, last |-> "resolved",
                        repeated |-> DisconnectReturned]
            /\ UNCHANGED room
    /\ UNCHANGED <<showAudioEnableButton, avatarSessionToken, audioContext,
                   mounted, run, nRun, spk, published, plays, enable,
                   nonAvVars>>

\* the room.disconnect() that disconnect() awaits resolves
DisconnectResolved ==
    /\ disc.pc = "awaiting"
    /\ room[disc.room].state = "disconnected"
    /\ DisconnectEnd
    /\ disc' = [disc EXCEPT !.pc = "idle", !.last = "resolved"]
    /\ UNCHANGED <<showAudioEnableButton, avatarSessionToken, audioContext,
                   mounted, run, nRun, room, spk, published, plays, enable,
                   nonAvVars>>

\* the room.disconnect() that disconnect() awaits rejects: the catch block
\* logs and rethrows, and the room stays as it was
DisconnectRejected ==
    /\ disc.pc = "awaiting"
    /\ room[disc.room].closing
    /\ room' = [room EXCEPT ![disc.room].closing = FALSE]
    /\ disc' = [disc EXCEPT !.pc = "idle", !.last = "rejected"]
    /\ UNCHANGED <<roomRef, isCreatingRef, hasSessionRef, isConnected,
                   showAudioEnableButton, audioElementsRef, avatarSessionToken,
                   audioContext, mounted, run, nRun, spk, published, plays,
                   enable, nonAvVars>>

\* ---- AvatarVideo: speak ----

\* the texts speak is called with
Texts == {"Hi", "say \"go\""}

\* JSON.stringify of a string: quotes and backslashes are escaped
EscapeChar(c) == IF c = "\"" THEN "\\\"" ELSE IF c = "\\" THEN "\\\\" ELSE c

RECURSIVE EscapeString(_)
EscapeString(str) ==
    IF Len(str) = 0 THEN ""
    ELSE EscapeChar(CharAt(str, 1)) \o EscapeString(SubSeq(str, 2, Len(str)))

JsonString(str) == "\"" \o EscapeString(str) \o "\""

\* mutant: the text is put into the payload unescaped
PayloadStringRaw(text) ==
    "{\"event_type\":\"avatar.speak_text\",\"data\":{\"text\":\""
        \o text \o "\"}}"

\* JSON.stringify({ event_type: "avatar.speak_text", data: { text } })
PayloadString(text) ==
    "{\"event_type\":" \o JsonString("avatar.speak_text")
        \o ",\"data\":{\"text\":" \o JsonString(text) \o "}}"

\* new TextEncoder().encode(payloadString): one element per character (the
\* texts are ASCII)
Encode(str) == [k \in 1..Len(str) |-> CharAt(str, k)]

\* speak passes both of its guards
CanSpeak == roomRef # Null /\ room[roomRef].state = "connected"

\* speak(text) is called through the handle: up to its return or its await
\* of publishData
SpeakCalled ==
    /\ mounted
    /\ spk.pc = "idle"
    /\ CanSpeak => Len(published) < MaxPublished
    /\ \E text \in Texts :
        IF CanSpeak
        THEN /\ published' = Append(published,
                    [room |-> roomRef, payload |-> Encode(PayloadString(text)),
                     topic |-> "agent-control"])
             /\ spk' = [pc |-> "publishing", last |-> "pending", text |-> text]
        ELSE /\ spk' = [pc |-> "idle", last |-> "warned", text |-> text]
             /\ UNCHANGED published
    /\ UNCHANGED <<roomRef, isCreatingRef, hasSessionRef, isConnected,
                   showAudioEnableButton, audioElementsRef, avatarSessionToken,
                   audioContext, mounted, run, nRun, room, disc, plays, enable,
                   nonAvVars>>

\* publishData settles: speak returns, or logs and rethrows
SpeakSettled ==
    /\ spk.pc = "publishing"
    /\ \E ok \in BOOLEAN :
        spk' = [spk EXCEPT !.pc = "idle",
                           !.last = IF ok THEN "sent" ELSE "threw"]
    /\ UNCHANGED <<roomRef, isCreatingRef, hasSessionRef, isConnected,
                   showAudioEnableButton, audioElementsRef, avatarSessionToken,
                   audioContext, mounted, run, nRun, room, disc, published,
                   plays, enable, nonAvVars>>

\* ---- AvatarVideo: remote audio and enableAudio ----

\* RoomEvent.TrackSubscribed of room k: a video track is attached to the
\* video element; an audio track is attached to the audio element, which is
\* recorded in audioElementsRef and played
TrackSubscribed(k) ==
    /\ room[k].state = "connected"
    /\ Len(audioElementsRef) < MaxTracks
    /\ plays.pending < MaxTracks
    /\ \E kind \in {"video", "audio"} :
        IF kind = "audio"
        THEN /\ audioElementsRef' = Append(audioElementsRef, "audio")
             /\ plays' = [plays EXCEPT !.pending = @ + 1]
        ELSE UNCHANGED <<audioElementsRef, plays>>
    /\ UNCHANGED <<roomRef, isCreatingRef, hasSessionRef, isConnected,
                   showAudioEnableButton, avatarSessionToken, audioContext,
                   mounted, run, nRun, room, disc, spk, published, enable,
                   nonAvVars>>

\* showAudioEnableButton after the play() promise of an attached track settled
ButtonAfterPlay(outcome) ==
    CASE outcome = "started" -> FALSE
      [] outcome = "NotAllowedError" -> TRUE
      [] OTHER -> showAudioEnableButton

\* the play() promise of an attached audio track settles
AttachedPlaySettled ==
    /\ plays.pending > 0
    /\ \E outcome \in {"started", "NotAllowedError", "AbortError"} :
        /\ plays' = [pending |-> plays.pending - 1, last |-> outcome]
        /\ showAudioEnableButton' = ButtonAfterPlay(outcome)
    /\ UNCHANGED <<roomRef, isCreatingRef, hasSessionRef, isConnected,
                   audioElementsRef, avatarSessionToken, audioContext, mounted,
                   run, nRun, room, disc, spk, published, enable, nonAvVars>>

\* the page's audio context (window.audioContext) is created, suspended or
\* resumed by the browser
AudioContextChanged ==
    /\ \E st \in {"suspended", "running"} :
        /\ audioContext # st
        /\ audioContext' = st
    /\ UNCHANGED <<roomRef, isCreatingRef, hasSessionRef, isConnected,
                   showAudioEnableButton, audioElementsRef, avatarSessionToken,
                   mounted, run, nRun, room, disc, spk, published, plays,
                   enable, nonAvVars>>

\* mutant: enableAudio plays the first attached element only
ElementsPlayedFirstOnly ==
    IF Len(audioElementsRef) > 0 THEN 1 ELSE 0

\* the elements audioElementsRef.current.forEach calls play() on
ElementsPlayed == Len(audioElementsRef)

\* enableAudio after the audio context: play() on the attached elements
\* (their outcomes are only logged) and setShowAudioEnableButton(false)
EnableAudioEnd(resumed) ==
    /\ enable' = [pc |-> "idle", n |-> 1, resumed |-> resumed,
                  played |-> ElementsPlayed]
    /\ showAudioEnableButton' = FALSE

\* the Enable Audio button: enableAudio up to its await of
\* audioContext.resume(), or to its end
EnableAudioClicked ==
    /\ mounted
    /\ showAudioEnableButton
    /\ enable.pc = "idle"
    /\ IF audioContext = "suspended"
       THEN /\ enable' = [enable EXCEPT !.pc = "resuming"]
            /\ UNCHANGED showAudioEnableButton
       ELSE EnableAudioEnd(FALSE)
    /\ UNCHANGED <<roomRef, isCreatingRef, hasSessionRef, isConnected,
                   audioElementsRef, avatarSessionToken, audioContext, mounted,
                   run, nRun, room, disc, spk, published, plays, nonAvVars>>

\* audioContext.resume() settles (a failure is logged)
EnableAudioResumed ==
    /\ enable.pc = "resuming"
    /\ \E ok \in BOOLEAN :
        /\ audioContext' = (IF ok THEN "running" ELSE audioContext)
        /\ EnableAudioEnd(ok)
    /\ UNCHANGED <<roomRef, isCreatingRef, hasSessionRef, isConnected,
                   audioElementsRef, avatarSessionToken, mounted, run, nRun,
                   room, disc, spk, published, plays, nonAvVars>>

\* ---- AvatarVideo: the state machine ----

\* the mount effect, its connectAvatar call and the events of its rooms
LifecycleStep ==
    \/ EffectRun
    \/ EffectCleanup
    \/ \E k \in RunIds :
        \/ CreateSettled(k)
        \/ RoomConnected(k)
        \/ NotifyTimerFired(k)
        \/ ConnectResolved(k)
        \/ RoomConnectFailed(k)
        \/ ConnectRejected(k)
        \/ RoomClosed(k)
        \/ RoomDropped(k)

DisconnectStep ==
    \/ DisconnectCalled
    \/ DisconnectResolved
    \/ DisconnectRejected

\* the component with the calls its parent makes through the handle
AvNext ==
    \/ LifecycleStep
    \/ DisconnectStep
    \/ SpeakCalled
    \/ SpeakSettled
    \/ \E k \in RunIds : TrackSubscribed(k)

AvSpec == Init /\ [][AvNext]_vars

\* the component with its remote audio and the Enable Audio button
AvAudioNext ==
    \/ LifecycleStep
    \/ AttachedPlaySettled
    \/ AudioContextChanged
    \/ EnableAudioClicked
    \/ EnableAudioResumed
    \/ \E k \in RunIds : TrackSubscribed(k)

AvAudioSpec == Init /\ [][AvAudioNext]_vars

\* ---- MicControl ----

\* a click on the button while recording is false: startRecording up to its
\* await of getUserMedia
StartRecordingClicked ==
    /\ ~recording
    /\ nMicRec < MaxMicRecorders
    /\ nMicRec' = nMicRec + 1
    /\ micRec' = [micRec EXCEPT ![nMicRec + 1].st = "pending"]
    /\ UNCHANGED <<recording, micRecorderRef, chunksRef, submitted, roomVars, apiVars, avVars>>

\* getUserMedia of startRecording call i resolves: the recorder is created,
\* installed, started, and recording is set
MicUserMediaResolved(i) ==
    /\ micRec[i].st = "pending"
    /\ micRecorderRef' = i
    /\ micRec' = [micRec EXCEPT ![i].st = "recording"]
    /\ recording' = TRUE
    /\ UNCHANGED <<chunksRef, nMicRec, submitted, roomVars, apiVars, avVars>>

\* getUserMedia of startRecording call i rejects: startRecording has no
\* catch, so nothing is written
MicUserMediaRejected(i) ==
    /\ micRec[i].st = "pending"
    /\ micRec' = [micRec EXCEPT ![i].st = "denied"]
    /\ UNCHANGED <<recording, micRecorderRef, chunksRef, nMicRec, submitted,
                   roomVars, apiVars, avVars>>

\* a click on the button while recording is true: stopRecording stops the
\* installed recorder, clears recording and sets the recorder's onstop
StopRecordingClicked ==
    /\ recording
    /\ micRecorderRef # Null
    /\ micRec[micRecorderRef].st = "recording"
    /\ micRec' = [micRec EXCEPT ![micRecorderRef] =
                      [st |-> "stopping", onstop |-> TRUE]]
    /\ recording' = FALSE
    /\ UNCHANGED <<micRecorderRef, chunksRef, nMicRec, submitted, roomVars, apiVars, avVars>>

\* ondataavailable of recorder i: every chunk is pushed, whatever its size
MicChunksAfterData(i, size) == Append(chunksRef, [rec |-> i, size |-> size])

\* the task MediaRecorder.stop() queued for recorder i: its one
\* dataavailable event and then its stop event, whose handler makes a Blob of
\* chunksRef, empties it and calls onSubmit
MicRecorderStopped(i) ==
    /\ micRec[i].st = "stopping"
    /\ micRec' = [micRec EXCEPT ![i].st = "inactive"]
    /\ \E size \in {0, 1} :
        IF micRec[i].onstop
        THEN /\ submitted' = Append(submitted,
                    [rec |-> i, blob |-> MicChunksAfterData(i, size)])
             /\ chunksRef' = <<>>
        ELSE /\ chunksRef' = MicChunksAfterData(i, size)
             /\ UNCHANGED submitted
    /\ UNCHANGED <<recording, micRecorderRef, nMicRec, roomVars, apiVars, avVars>>

MicNext ==
    \/ StartRecordingClicked
    \/ StopRecordingClicked
    \/ \E i \in MicIds :
        \/ MicUserMediaResolved(i)
        \/ MicUserMediaRejected(i)
        \/ MicRecorderStopped(i)

MicSpec == Init /\ [][MicNext]_vars

\* ---- session-protocol requests in flight ----

\* the positions at which a handleUserResponse call awaits a
\* session-protocol request (submitAnswer, completeSession,
\* getSessionResults, speakTTS)
AwaitsRequest(pc) == pc \in {"submit", "answered", "complete", "results", "tts"}

\* the recorders whose handleUserResponse call has a request for session s
\* outstanding
OutstandingFor(s) == {i \in RecIds : rec[i].sid = s /\ AwaitsRequest(rec[i].pc)}

\* initializeSession has getQuestion or speakTTS for session s outstanding
InitOutstandingFor(s) == initSid = s /\ initPc \in {"question", "tts"}

NumOutstanding(s) ==
    Cardinality(OutstandingFor(s)) + (IF InitOutstandingFor(s) THEN 1 ELSE 0)

Recording == {i \in RecIds : rec[i].st = "recording"}

\* ---- claims ----

\* C1: at most one session-protocol request (getQuestion, speakTTS,
\* submitAnswer, completeSession, getSessionResults) of a session is
\* outstanding at any moment; in particular no second submitAnswer is issued
\* while an earlier one of the session is unsettled.
C1_OneRequestOutstanding == \A s \in SessIds : NumOutstanding(s) <= 1

\* C2: at most one MediaRecorder is in the recording state at any time.
C2_OneRecorderRecording == Cardinality(Recording) <= 1

\* C3: whenever the phase is processing and every outstanding call settles,
\* the phase becomes asking, completing or idle without a further mic tap
\* (a mic tap in processing starts a recording and makes the phase listening,
\* so with or without taps the phase has to leave processing).
C3_ProcessingEnds ==
    (interviewState = "processing") ~> (interviewState # "processing")

\* a submitAnswer call of recorder i settles in this step
SubmitSettles(i) ==
    /\ rec[i].pc \in {"submit", "answered"}
    /\ rec'[i].pc \notin {"submit", "answered"}

\* C4: every settled submitAnswer result (is_complete true, next question
\* present, or neither) moves the phase out of processing to exactly one of
\* completing, asking or idle.
C4_SubmitResultLeavesProcessing ==
    [][\A i \in RecIds :
         (SubmitSettles(i) /\ interviewState = "processing")
            => interviewState' \in {"completing", "asking", "idle"}]_vars

\* C5: within one session currentQuestionIndex never decreases, until
\* resetInterview starts over.
C5_QuestionIndexMonotone ==
    [][(hasStarted /\ hasStarted') =>
          currentQuestionIndex' >= currentQuestionIndex]_vars

\* C6: after a submitAnswer result with is_complete true the phase becomes
\* completing; after the settling delay completeSession is invoked exactly
\* once and, only after it succeeded, getSessionResults exactly once;
\* hasFinished becomes true only after both succeeded, and sessionResults
\* then holds the fetched results record.
C6_Step(i) ==
    /\ (/\ rec[i].pc = "answered"
        /\ rec[i].data.is_complete
        /\ rec'[i].pc \notin {"answered", "rejected"})
          => (interviewState' = "completing" /\ rec'[i].pc = "delay")
    /\ (rec'[i].pc = "delay" /\ rec[i].pc # "delay")
          => (rec[i].pc = "answered" /\ rec[i].data.is_complete)
    /\ (rec'[i].nComplete # rec[i].nComplete)
          => (rec[i].pc = "delay" /\ rec'[i].nComplete = 1)
    /\ (rec'[i].nResults # rec[i].nResults)
          => (rec[i].pc = "complete" /\ rec'[i].nResults = 1)

C6_Finish ==
    (~hasFinished /\ hasFinished') =>
        \E i \in RecIds :
            /\ rec[i].pc = "results"
            /\ rec'[i].pc = "finished"
            /\ rec[i].nComplete = 1
            /\ rec[i].nResults = 1
            /\ sessionResults' = rec[i].sid

C6_Calls ==
    \A i \in RecIds :
        /\ rec[i].nComplete <= 1
        /\ rec[i].nResults <= 1
        /\ rec[i].nResults = 1 => rec[i].nComplete = 1
        /\ rec[i].pc \in {"complete", "results", "finished"} => rec[i].nComplete = 1
        /\ rec[i].pc \in {"results", "finished"} => rec[i].nResults = 1

C6_CompletionProtocol ==
    /\ [][C6_Finish /\ \A i \in RecIds : C6_Step(i)]_vars
    /\ [](C6_Calls /\ (hasFinished => sessionResults # Null))
    /\ \A i \in RecIds : (rec[i].pc = "delay") ~> (rec[i].nComplete = 1)

C6_Witness ==
    \E i \in RecIds :
        /\ rec[i].pc = "finished"
        /\ hasFinished
        /\ sessionResults = rec[i].sid
        /\ interviewState = "completing"

\* C7: if submitAnswer rejects while the phase is processing, the phase
\* becomes idle and currentQuestion and currentQuestionIndex keep their values.
C7_SubmitRejectionReturnsToIdle ==
    [][\A i \in RecIds :
         (/\ rec[i].pc \in {"submit", "answered"}
          /\ rec'[i].pc = "rejected"
          /\ interviewState = "processing")
            => (/\ interviewState' = "idle"
                /\ currentQuestion' = currentQuestion
                /\ currentQuestionIndex' = currentQuestionIndex)]_vars

C7_Witness ==
    /\ nRec = 1
    /\ rec[1].pc = "rejected"
    /\ interviewState = "idle"
    /\ currentQuestion = QuestionText(rec[1].sid, 0)

\* C8: if getUserMedia rejects after a mic tap, isListening returns to false
\* and the phase to idle, and no submitAnswer call results from that tap.
C8_MicDeniedReturnsToIdle ==
    /\ [][\A i \in RecIds :
            (rec[i].st = "pending" /\ rec'[i].st = "denied")
               => (~isListening' /\ interviewState' = "idle")]_vars
    /\ [](\A i \in RecIds :
            rec[i].st = "denied" => (rec[i].pc = "none" /\ rec[i].blob = <<>>))

C8_Witness ==
    \E i \in RecIds :
        rec[i].st = "denied" /\ ~isListening /\ interviewState = "idle"

\* C9: for a mic tap from idle, a second tap after audio was recorded and a
\* submitAnswer result with next_question present and is_complete false, the
\* phase passes through exactly listening, processing, asking, idle in that
\* order, currentQuestion becomes next_question and currentQuestionIndex the
\* result's question_index.
C9_Step(i) ==
    \* the tap from idle
    /\ (rec[i].st = "none" /\ rec'[i].st = "pending" /\ interviewState = "idle")
          => interviewState' = "listening"
    \* the second tap, on a recorder that is recording
    /\ (rec[i].st = "recording" /\ rec'[i].st = "stopping"
                                /\ interviewState = "listening")
          => interviewState' = "processing"
    \* the submitAnswer result with a next question
    /\ (/\ rec[i].pc = "answered"
        /\ ~rec[i].data.is_complete
        /\ rec[i].data.next_question # NoQuestion
        /\ rec'[i].pc \notin {"answered", "rejected"})
          => (/\ interviewState' = "asking"
              /\ currentQuestion' = rec[i].data.next_question
              /\ currentQuestionIndex' = rec[i].data.question_index
              /\ rec'[i].pc = "tts")
    \* the 1000 ms timeout after the playback attempt
    /\ (rec[i].pc = "timer" /\ rec'[i].pc # "timer")
          => (interviewState' = "idle" /\ rec'[i].pc = "done")
    \* nothing in between changes the phase
    /\ (\/ rec[i].st = "pending" /\ rec'[i].st = "recording"
        \/ rec[i].st = "stopping" /\ rec'[i].st = "inactive"
        \/ rec[i].pc = "submit" /\ rec'[i].pc = "answered"
        \/ rec[i].pc = "tts" /\ rec'[i].pc \in {"play", "timer"}
        \/ rec[i].pc = "play" /\ rec'[i].pc = "timer")
          => interviewState' = interviewState

\* the phase of the first turn, while no other recorder has been started
C9_FirstTurn ==
    (nRec = 1 /\ hasStarted) =>
        /\ (rec[1].st \in {"pending", "recording"} /\ isListening)
              => interviewState = "listening"
        /\ (rec[1].st = "stopping" \/ rec[1].pc \in {"submit", "answered"})
              => interviewState = "processing"
        /\ rec[1].pc \in {"tts", "play", "timer"}
              => (/\ interviewState = "asking"
                  /\ currentQuestion = rec[1].data.next_question
                  /\ currentQuestionIndex = rec[1].data.question_index)
        /\ (rec[1].pc = "done" /\ rec[1].data.next_question # NoQuestion)
              => (/\ interviewState = "idle"
                  /\ currentQuestion = rec[1].data.next_question
                  /\ currentQuestionIndex = rec[1].data.question_index)

C9_TurnPhaseSequence ==
    /\ [][\A i \in RecIds : C9_Step(i)]_vars
    /\ []C9_FirstTurn

C9_Witness ==
    /\ nRec = 1
    /\ rec[1].pc = "done"
    /\ rec[1].blob = <<1>>
    /\ rec[1].data.next_question = QuestionText(1, 1)
    /\ interviewState = "idle"
    /\ currentQuestion = QuestionText(1, 1)
    /\ currentQuestionIndex = 1

\* C10: after the user requests start and createInterviewSession and
\* getQuestion(session, 0) both succeed, hasStarted is true, the phase is
\* idle, currentQuestionIndex is 0, sessionId is the created id and
\* currentQuestion the fetched text; getQuestion is issued only after
\* createInterviewSession succeeded and with the id it returned.
C10_StartedOnFetchedQuestion ==
    [][/\ (~hasStarted /\ hasStarted')
            => (/\ interviewState' = "idle"
                /\ currentQuestionIndex' = 0
                /\ sessionId' = initSid
                /\ sessionId' # Null
                /\ currentQuestion' = QuestionText(initSid, 0))
       /\ (initPc # "question" /\ initPc' = "question")
            => (/\ initPc = "create"
                /\ initSid' = nSess'
                /\ nSess' = nSess + 1
                /\ sessionId' = initSid')]_vars

\* C11: if createInterviewSession or getQuestion rejects during
\* initialization, apiConnectionError becomes true, isInitializing false,
\* hasStarted stays false and the phase is unchanged; in that state the retry
\* is enabled, and a retry issues createInterviewSession again.
C11_Step ==
    /\ (initPc \in {"create", "question"} /\ initPc' = "none")
          => (/\ apiConnectionError'
              /\ ~isInitializing'
              /\ ~hasStarted /\ ~hasStarted'
              /\ interviewState' = interviewState)
    /\ (initVia # "retry" /\ initVia' = "retry")
          => (apiConnectionError /\ initPc = "none" /\ initPc' = "create")

C11_InitFailureAllowsRetry ==
    /\ [][C11_Step]_vars
    /\ [](apiConnectionError => (~hasStarted /\ ENABLED RetryClick))

C11_Witness ==
    /\ apiConnectionError
    /\ ~isInitializing
    /\ ~hasStarted
    /\ initPc = "none"
    /\ sessionId # Null
    /\ currentQuestion = NoQuestion

\* C12: a failure of speakTTS or of audio play() never aborts the flow:
\* initializeSession still ends in success with the phase idle, and after a
\* non-final answer the phase still goes asking, then idle, with the new
\* question set, as when the playback succeeds.
C12_InitStep ==
    /\ (initPc = "tts" /\ initPc' # "tts") => initPc' \in {"play", "none"}
    /\ (initPc \in {"tts", "play"} /\ initPc' = "none")
          => (/\ interviewState' = "idle"
              /\ ~apiConnectionError'
              /\ ~isInitializing'
              /\ (initVia = "button" => hasStarted')
              /\ currentQuestion' = currentQuestion
              /\ currentQuestionIndex' = currentQuestionIndex)

C12_TurnStep(i) ==
    /\ (rec[i].pc = "tts" /\ rec'[i].pc # "tts")
          => rec'[i].pc \in {"play", "timer"}
    /\ (rec[i].pc = "play" /\ rec'[i].pc # "play") => rec'[i].pc = "timer"
    /\ (rec[i].pc \in {"tts", "play"} /\ rec'[i].pc # rec[i].pc)
          => (/\ interviewState' = interviewState
              /\ currentQuestion' = currentQuestion
              /\ currentQuestionIndex' = currentQuestionIndex)
    /\ (rec[i].pc = "timer" /\ rec'[i].pc # "timer")
          => (interviewState' = "idle" /\ rec'[i].pc = "done")

\* the first turn, when its playback failed
C12_FailedFirstTurn ==
    (nRec = 1 /\ hasStarted /\ 1 \in consoleErrors) =>
        /\ rec[1].pc \in {"timer", "done"}
        /\ interviewState = (IF rec[1].pc = "timer" THEN "asking" ELSE "idle")
        /\ currentQuestion = rec[1].data.next_question
        /\ currentQuestion # NoQuestion
        /\ currentQuestionIndex = rec[1].data.question_index

C12_PlaybackFailureNotFatal ==
    /\ [][C12_InitStep /\ \A i \in RecIds : C12_TurnStep(i)]_vars
    /\ []C12_FailedFirstTurn
    /\ (initPc \in {"tts", "play"}) ~> (initPc = "none")
    /\ \A i \in RecIds : (rec[i].pc \in {"tts", "play"}) ~> (rec[i].pc = "done")

C12_Witness ==
    /\ consoleErrors = {InitCaller, 1}
    /\ hasStarted
    /\ nSess = 1
    /\ nRec = 1
    /\ rec[1].pc = "done"
    /\ interviewState = "idle"
    /\ currentQuestion = QuestionText(1, 1)
    /\ currentQuestionIndex = 1

\* a handleUserResponse call has received a submitAnswer result with
\* is_complete true for session s
CompleteReceived(s) ==
    \E i \in RecIds :
        /\ rec[i].sid = s
        /\ rec[i].data.is_complete
        /\ rec[i].pc \in {"delay", "complete", "results", "finished",
                         "completeFailed", "resultsFailed"}

\* C13: once a submitAnswer result with is_complete true has been received
\* for a session, no getQuestion call is issued (or outstanding) for that
\* session.
C13_NoQuestionAfterComplete ==
    initPc = "question" => ~CompleteReceived(InitQuestionSession)

C13_Witness ==
    /\ initPc = "question"
    /\ \E s \in SessIds : CompleteReceived(s)

\* C14: the timer increases by exactly one per tick, a tick is enabled
\* exactly when hasStarted is true and hasFinished is false, and once
\* hasFinished is true the timer does not change again in that session (only
\* resetInterview, which ends the session, sets it back to 0).
C14_Step ==
    /\ (timer' # timer) =>
          \/ (hasStarted /\ ~hasFinished /\ timer' = timer + 1)
          \/ (hasStarted /\ hasFinished /\ ~hasStarted' /\ timer' = 0)
    /\ (hasFinished /\ hasFinished') => timer' = timer

C14_TimerRunsWhileActive ==
    /\ [][C14_Step]_vars
    /\ [](timer < MaxTimer =>
            (ENABLED TimerTick <=> (hasStarted /\ ~hasFinished)))

C14_Witness ==
    /\ hasStarted
    /\ hasFinished
    /\ timer = MaxTimer

\* C15: completing is the only phase that disables the record button: in the
\* interview room the button is disabled and a tap ignored exactly when the
\* phase is completing; in idle, asking, listening and processing a tap is
\* acted on (it starts or stops a recording).
C15_OnlyCompletingIgnoresTaps ==
    RoomScreen =>
        /\ MicButtonEnabled <=> interviewState # "completing"
        /\ ToggleMicIgnores <=> interviewState = "completing"

\* recorder i was started in a session that resetInterview has ended since
StartedBeforeReset(i) == rec[i].st # "none" /\ rec[i].sid # sessionId

\* C16: after resetInterview no continuation of a request, recorder event or
\* timeout that was started before the reset writes sessionId,
\* currentQuestion, currentQuestionIndex, the phase, sessionResults or
\* hasFinished.
C16_NoStaleWrites ==
    [][\A i \in RecIds :
         (StartedBeforeReset(i) /\ Settles(i))
            => UNCHANGED <<sessionId, currentQuestion, currentQuestionIndex,
                           interviewState, sessionResults, hasFinished>>]_vars

\* the post-completion calls of recorder i's handleUserResponse call failed
CompletionFailed(i) == rec[i].pc \in {"completeFailed", "resultsFailed"}

\* C17: if completeSession or getSessionResults rejects after the settling
\* delay, hasFinished never becomes true, sessionResults stays null and the
\* phase stays completing with mic taps ignored; no retry is issued, and if
\* completeSession rejected getSessionResults is never called.
C17_StuckInCompleting ==
    \A i \in RecIds :
        CompletionFailed(i) =>
            /\ ~hasFinished
            /\ sessionResults = Null
            /\ interviewState = "completing"
            /\ ToggleMicIgnores
            /\ rec[i].nComplete = 1
            /\ rec[i].nResults = (IF rec[i].pc = "completeFailed" THEN 0 ELSE 1)

\* the parsed body of the response carries an error detail
HasErrorDetail(res) == res.net /\ res.json /\ res.detail # ""

\* C18: every API client operation that reads a response body rejects when
\* the body carries an error detail field, also when the HTTP status is a
\* success; none of them resolves with such a body.
C18_ErrorDetailRejects ==
    \A op \in ApiOps :
        (Settled(op) /\ HasErrorDetail(apiCall.res))
            => apiResult.kind = "rejected"

\* C19: createInterviewSession either resolves with an object in which
\* session_id, week and total_questions are all present, or rejects.
C19_SessionObjectComplete ==
    (Settled("createInterviewSession") /\ apiResult.kind = "resolved")
        => {"session_id", "week", "total_questions"} \subseteq apiResult.fields

\* the error detail the server reported: the detail of the body, or the
\* status text of a non-success response whose body has none
C20_ReportedDetail(res) ==
    IF ~res.net THEN ""
    ELSE IF res.json /\ res.detail # "" THEN res.detail
    ELSE IF ~res.ok THEN res.statusText
    ELSE ""

\* the details and status texts that contain "concurrency limit" in some
\* letter case
C20_ConcurrencyDetails ==
    {"Concurrency limit reached", "CONCURRENCY LIMIT",
     "Too many sessions: concurrency Limit", "Concurrency Limit Exceeded"}

\* C20: createAvatarSession rejects with an error tagged isConcurrencyLimit
\* whenever the server's error detail contains "concurrency limit" in any
\* letter case, with a non-success status or inside an HTTP-success body,
\* and rejects with an untagged error for every other failure.
C20_ConcurrencyLimitTagged ==
    Settled("createAvatarSession") =>
        IF C20_ReportedDetail(apiCall.res) \in C20_ConcurrencyDetails
        THEN apiResult.kind = "rejected" /\ apiResult.isConcurrencyLimit
        ELSE ~apiResult.isConcurrencyLimit

C20_Witness ==
    /\ Settled("createAvatarSession")
    /\ apiCall.res.ok
    /\ apiCall.res.detail = "CONCURRENCY LIMIT"
    /\ apiResult.kind = "rejected"
    /\ apiResult.isConcurrencyLimit

\* C21: createAvatarSession never resolves with an HTTP-success response
\* that lacks a required connection field: the room connection URL, the
\* access token, the room name, or the session token / id.
C21_ConnectionFieldsPresent ==
    (Settled("createAvatarSession") /\ apiResult.kind = "resolved")
        => /\ {"livekit_url", "livekit_token", "room_name"}
                  \subseteq apiResult.fields
           /\ {"session_token", "session_id"} \cap apiResult.fields # {}


\* C22: every call of disconnect() that returns leaves roomRef null,
\* isConnected, hasSessionRef and isCreatingRef false and no attached audio
\* element, and a call that follows a returned one with nothing in between
\* returns at once, leaves that same state and does not call room.disconnect
C22_EndState ==
    /\ roomRef = Null
    /\ ~isConnected
    /\ ~hasSessionRef
    /\ ~isCreatingRef
    /\ audioElementsRef = <<>>

C22_Returns == disc'.pc = "idle" /\ disc'.last = "resolved"

C22_Step ==
    /\ ((DisconnectCalled \/ DisconnectResolved) /\ C22_Returns) => C22_EndState'
    /\ (DisconnectCalled /\ disc.last = "resolved" /\ C22_EndState)
            => (C22_Returns /\ C22_EndState' /\ room' = room)

C23_DisconnectReturns ==
    /\ DisconnectCalled \/ DisconnectResolved
    /\ disc'.pc = "idle"
    /\ disc'.last = "resolved"

C23_Step ==
    /\ C23_DisconnectReturns
            => (~avatarSessionToken' /\ ~hasSessionRef' /\ ~isCreatingRef')
    /\ (EffectRun /\ DisconnectReturned) => run'[nRun'].pc = "creating"

C23_TokenClearedOnDisconnect == [][C23_Step]_vars

\* C24: at most one Room of the instance is connecting or connected at any
\* time
C24_AtMostOneActiveRoom ==
    Cardinality({k \in RunIds : room[k].state \in {"connecting", "connected"}}) <= 1

\* C25: speak(text) called with no room, or with a room whose state is not
\* connected, publishes nothing and returns; called with a connected room it
\* publishes one message on the agent-control topic whose payload decodes and
\* parses to an avatar.speak_text event carrying text; nothing else publishes
C25_Decode(bytes) ==
    LET RECURSIVE Join(_)
        Join(k) == IF k > Len(bytes) THEN "" ELSE bytes[k] \o Join(k + 1)
    IN Join(1)

\* the characters of a JSON string literal up to its closing quote, with the
\* escapes removed, and what follows the closing quote
RECURSIVE C25_ParseString(_)
C25_ParseString(str) ==
    IF Len(str) = 0 THEN [ok |-> FALSE, text |-> "", rest |-> ""]
    ELSE IF SubSeq(str, 1, 1) = "\""
    THEN [ok |-> TRUE, text |-> "", rest |-> SubSeq(str, 2, Len(str))]
    ELSE LET esc == SubSeq(str, 1, 1) = "\\" /\ Len(str) >= 2
             c == IF esc THEN SubSeq(str, 2, 2) ELSE SubSeq(str, 1, 1)
             tail == C25_ParseString(SubSeq(str, IF esc THEN 3 ELSE 2, Len(str)))
         IN [tail EXCEPT !.text = c \o @]

C25_Head == "{\"event_type\":\"avatar.speak_text\",\"data\":{\"text\":\""

\* the text of the avatar.speak_text event a payload parses to, "" standing
\* for a payload that is no such event
C25_TextOf(bytes) ==
    LET str == C25_Decode(bytes)
    IN IF Len(str) < Len(C25_Head) \/ SubSeq(str, 1, Len(C25_Head)) # C25_Head
       THEN ""
       ELSE LET parsed == C25_ParseString(SubSeq(str, Len(C25_Head) + 1, Len(str)))
            IN IF parsed.ok /\ parsed.rest = "}}" THEN parsed.text ELSE ""

C25_NoRoomOrNotConnected ==
    roomRef = Null \/ room[roomRef].state # "connected"

C25_Step ==
    /\ (SpeakCalled /\ C25_NoRoomOrNotConnected)
            => (published' = published /\ spk'.pc = "idle" /\ spk'.last = "warned")
    /\ (SpeakCalled /\ ~C25_NoRoomOrNotConnected)
            => /\ Len(published') = Len(published) + 1
               /\ SubSeq(published', 1, Len(published)) = published
               /\ published'[Len(published')].room = roomRef
               /\ published'[Len(published')].topic = "agent-control"
               /\ C25_TextOf(published'[Len(published')].payload) = spk'.text
    /\ published' # published => SpeakCalled

C25_SpeakPublishesWhenConnected == [][C25_Step]_vars

\* a text with quotes was published to a connected room, and a later call
\* found no connected room and returned
C25_Witness ==
    /\ Len(published) = 1
    /\ C25_TextOf(published[1].payload) = "say \"go\""
    /\ spk.pc = "idle"
    /\ spk.last = "warned"

\* C26: a createAvatarSession request is issued only by a run of the mount
\* effect and room.connect only by the run whose request succeeded, once, so
\* neither follows a concurrency-limit failure or a Disconnected event without
\* a new run of the effect; when createAvatarSession fails with the
\* concurrency-limit signal, isCreatingRef and hasSessionRef are false
C26_Requests == [k \in RunIds |-> run[k].nCreate]

C26_Connects == [k \in RunIds |-> run[k].nConnect]

C26_LimitFailure(k) ==
    /\ run[k].pc = "creating"
    /\ run'[k].pc \in {"limit", "limitUnmounted"}

C26_Step ==
    /\ C26_Requests' # C26_Requests => EffectRun
    /\ \A k \in RunIds :
        /\ run'[k].nConnect # run[k].nConnect
                => (run[k].pc = "creating" /\ run'[k].nConnect = 1)
        /\ (run[k].pc \in {"limit", "limitUnmounted"} \/ room[k].state = "disconnected")
                => (run'[k].nCreate = run[k].nCreate /\ run'[k].nConnect = run[k].nConnect)
        /\ C26_LimitFailure(k) => (~isCreatingRef' /\ ~hasSessionRef')

C26_NoAutomaticRetry == [][C26_Step]_vars

\* C27 as stated: a run of the mount effect with no cached token and no
\* creation in progress issues exactly one createAvatarSession request, a
\* request that succeeds is followed by one room.connect call with the
\* returned livekit_url and livekit_token, and a run with a cached token
\* issues no request
C27_Succeeds(k) ==
    /\ run[k].pc = "creating"
    /\ run'[k].pc \in {"connecting", "stale", "noDetails"}

C27_ConnectsWithReturned(k) ==
    /\ run'[k].nConnect = 1
    /\ room'[k].state = "connecting"
    /\ room'[k].args = <<SessionData(k).livekit_url, SessionData(k).livekit_token>>

C27_OnceOnly ==
    \A k \in RunIds :
        /\ run'[k].nCreate <= 1
        /\ run'[k].nConnect <= 1
        /\ run'[k].nCreate # run[k].nCreate => (EffectRun /\ k = nRun')
        /\ run'[k].nConnect # run[k].nConnect => C27_Succeeds(k)

C27_StatedStep ==
    /\ (EffectRun /\ ~avatarSessionToken /\ ~isCreatingRef)
            => run'[nRun'].nCreate = 1
    /\ (EffectRun /\ avatarSessionToken) => run'[nRun'].nCreate = 0
    /\ \A k \in RunIds : C27_Succeeds(k) => C27_ConnectsWithReturned(k)
    /\ C27_OnceOnly

C27_OneRequestPerRun == [][C27_StatedStep]_vars

\* C27 amended: a run of the mount effect with no cached token, no creation
\* in progress and hasSessionRef false issues exactly one createAvatarSession
\* request, and any other run issues none; a request that succeeds while its
\* run is still mounted is followed by one room.connect call with the
\* returned livekit_url and livekit_token, and one that succeeds after the
\* cleanup of its run by none
C27_AmendedStep ==
    /\ (EffectRun /\ ~avatarSessionToken /\ ~isCreatingRef /\ ~hasSessionRef)
            => run'[nRun'].nCreate = 1
    /\ (EffectRun /\ (avatarSessionToken \/ isCreatingRef \/ hasSessionRef))
            => run'[nRun'].nCreate = 0
    /\ \A k \in RunIds :
        /\ (C27_Succeeds(k) /\ run[k].isMounted) => C27_ConnectsWithReturned(k)
        /\ (C27_Succeeds(k) /\ ~run[k].isMounted)
                => (run'[k].nConnect = 0 /\ room'[k] = room[k])
    /\ C27_OnceOnly

C27_OneRequestPerGuardedRun == [][C27_AmendedStep]_vars

\* one run requested a session and connected with what was returned, and a
\* later run found the cached token and requested nothing
C27_Witness ==
    \E j, k \in RunIds :
        /\ run[j].nCreate = 1
        /\ run[j].nConnect = 1
        /\ room[j].args = <<SessionData(j).livekit_url, SessionData(j).livekit_token>>
        /\ run[k].pc = "cached"
        /\ run[k].nCreate = 0

\* C28: the Connected event of a room sets isConnected and starts the
\* settling delay without invoking onConnected; onConnected is invoked only
\* when that delay elapses, once per Connected event, and the delay once
\* started stays due until it elapses; a room that has not connected has
\* neither a delay nor an invocation
C28_ConnectedEvent(k) ==
    room[k].state = "connecting" /\ room'[k].state = "connected"

C28_Step ==
    \A k \in RunIds :
        /\ C28_ConnectedEvent(k)
                => /\ isConnected'
                   /\ room[k].timer = "none"
                   /\ room'[k].timer = "pending"
                   /\ room'[k].nNotified = room[k].nNotified
        /\ room'[k].nNotified # room[k].nNotified
                => /\ room[k].timer = "pending"
                   /\ room'[k].timer = "fired"
                   /\ room'[k].nNotified = room[k].nNotified + 1
        /\ room'[k].timer # room[k].timer
                => \/ C28_ConnectedEvent(k)
                   \/ room'[k].nNotified = room[k].nNotified + 1
        /\ room[k].timer = "pending" => ENABLED NotifyTimerFired(k)
        /\ room[k].state \in {"none", "connecting"}
                => (room[k].timer = "none" /\ room[k].nNotified = 0)
        /\ room[k].nNotified = (IF room[k].timer = "fired" THEN 1 ELSE 0)

C28_NotifiedOnceAfterDelay == [][C28_Step]_vars

\* onConnected has been invoked for a room that connected
C28_Witness ==
    \E k \in RunIds :
        /\ room[k].state = "connected"
        /\ room[k].timer = "fired"
        /\ room[k].nNotified = 1
        /\ isConnected

\* C29: when the play() promise of an attached audio track is rejected with
\* NotAllowedError, showAudioEnableButton becomes true; enableAudio calls
\* resume() on a suspended audio context, and when it ends it has called
\* play() on every element attached so far and showAudioEnableButton is false
C29_PlaySettles ==
    plays'.pending = plays.pending - 1

C29_EnableAudioEnds ==
    /\ EnableAudioClicked \/ EnableAudioResumed
    /\ enable'.pc = "idle"

C29_Step ==
    /\ (C29_PlaySettles /\ plays'.last = "NotAllowedError")
            => showAudioEnableButton'
    /\ (EnableAudioClicked /\ audioContext = "suspended")
            => (enable'.pc = "resuming" /\ showAudioEnableButton')
    /\ (EnableAudioResumed /\ enable'.resumed) => audioContext' = "running"
    /\ C29_EnableAudioEnds
            => /\ enable'.played = Len(audioElementsRef)
               /\ ~showAudioEnableButton'
               /\ enable.pc = "idle" => audioContext # "suspended"

C29_EnableAudioReplaysAll == [][C29_Step]_vars

\* autoplay was blocked, and enableAudio resumed the suspended context and
\* played both attached elements
C29_Witness ==
    /\ plays.last = "NotAllowedError"
    /\ enable.n = 1
    /\ enable.resumed
    /\ enable.played = 2
    /\ audioContext = "running"
    /\ ~showAudioEnableButton

\* C30: when a stopped recording ends, its recorder is released, and if it
\* captured a chunk one submitAnswer call is made whose blob holds exactly
\* the chunks of that recording, in order; if it captured none, no
\* submitAnswer call is made; a recording submits at most once
C30_StopEnds(i) ==
    rec[i].st = "stopping" /\ rec'[i].st # "stopping"

\* the chunks the recording captured: what its dataavailable event added
C30_Captured(i) ==
    IF Len(audioChunksRef') = Len(audioChunksRef) + 1 THEN <<i>> ELSE <<>>

C30_Step ==
    \A i \in RecIds :
        /\ C30_StopEnds(i)
                => /\ rec'[i].st = "inactive"
                   /\ IF C30_Captured(i) # <<>>
                      THEN rec'[i].pc = "submit" /\ rec'[i].blob = C30_Captured(i)
                      ELSE rec'[i].pc = "none" /\ rec'[i].blob = <<>>
        /\ (rec[i].pc # "submit" /\ rec'[i].pc = "submit") => C30_StopEnds(i)

C30_OneSubmitPerRecording == [][C30_Step]_vars

\* C31: in MicControl at most one MediaRecorder is recording at any time
\* (a start request made while a recording is active or getUserMedia is
\* pending creates no second one), and every blob given to onSubmit holds
\* exactly the chunk of the recording whose stop produced it, each stopped
\* recording giving at most one blob
C31_OneRecorderOneBlob ==
    /\ Cardinality({i \in MicIds : micRec[i].st = "recording"}) <= 1
    /\ \A k \in 1..Len(submitted) :
        /\ Len(submitted[k].blob) = 1
        /\ submitted[k].blob[1].rec = submitted[k].rec
        /\ \A j \in 1..Len(submitted) : submitted[j].rec = submitted[k].rec => j = k

\* C32: in every reachable state of InterviewRoom, isListening is true
\* exactly when the phase is listening
C32_ListeningFlagMatchesPhase ==
    isListening <=> interviewState = "listening"

\* C33: once the phase is completing it stays completing until hasFinished
\* becomes true
C33_Step ==
    (interviewState = "completing" /\ ~hasFinished)
        => (interviewState' = "completing" \/ hasFinished')

C33_CompletingIsStable == [][C33_Step]_vars

\* C34: once a submitAnswer result with is_complete true has been received
\* for a session, no submitAnswer call is issued with that session's id
C34_SubmitIssued(i) ==
    rec[i].pc # "submit" /\ rec'[i].pc = "submit"

C34_Step ==
    \A i \in RecIds :
        C34_SubmitIssued(i) => ~CompleteReceived(rec'[i].sid)

C34_NoSubmitAfterComplete == [][C34_Step]_vars

\* C35: after resetInterview isListening is false, no MediaRecorder is
\* recording (or waiting for the microphone) and the fields it resets have
\* their initial values
C35_Step ==
    ResetInterview
        => /\ ~isListening'
           /\ \A i \in RecIds : rec'[i].st \notin {"pending", "recording", "stopping"}
           /\ ~hasStarted' /\ ~hasFinished'
           /\ timer' = 0
           /\ interviewState' = "idle"
           /\ sessionId' = Null
           /\ weekData' = Null
           /\ currentQuestion' = NoQuestion
           /\ currentQuestionIndex' = 0
           /\ sessionResults' = Null

C35_ResetRestoresInitial == [][C35_Step]_vars

\* C36: a retry through Try Again whose createInterviewSession and
\* getQuestion succeed leaves the interview started on the session the retry
\* created: hasStarted true, phase idle, question index 0
C36_RetrySucceeds ==
    /\ initVia = "retry"
    /\ initPc \in {"tts", "play"}
    /\ initPc' = "none"
    /\ ~apiConnectionError'

C36_Step ==
    C36_RetrySucceeds
        => /\ hasStarted'
           /\ interviewState' = "idle"
           /\ currentQuestionIndex' = 0
           /\ sessionId' = initSid

C36_RetryStartsInterview == [][C36_Step]_vars

\* C37: when initializeSession fails (createInterviewSession or getQuestion
\* rejects), no session identity of that call remains in state: sessionId and
\* weekData are not those of a session the failed call created, and
\* currentQuestion and currentQuestionIndex are as before the failure
C37_InitFails ==
    /\ initPc \in {"create", "question"}
    /\ initPc' = "none"
    /\ apiConnectionError'

C37_Step ==
    C37_InitFails
        => /\ initSid # Null => (sessionId' # initSid /\ weekData' # initSid)
           /\ currentQuestion' = currentQuestion
           /\ currentQuestionIndex' = currentQuestionIndex

C37_FailedInitLeavesNoSession == [][C37_Step]_vars

\* C38: when a call of disconnect() returns, no room the controller created
\* is connecting or connected, and afterwards isConnected becomes true only
\* through a room of a session created since (the room roomRef holds)
C38_DisconnectReturns ==
    /\ DisconnectCalled \/ DisconnectResolved
    /\ disc'.pc = "idle"
    /\ disc'.last = "resolved"

C38_Step ==
    /\ C38_DisconnectReturns
            => \A k \in RunIds : room'[k].state \notin {"connecting", "connected"}
    /\ (~isConnected /\ isConnected')
            => (roomRef # Null /\ room'[roomRef].state = "connected")

C38_DisconnectLeavesNoRoom == [][C38_Step]_vars

\* C39: onConnected is invoked for a room only while that room is still
\* connected, still held by the controller and not being disconnected, and
\* the effect run that created it has not been cleaned up
C39_Invoked(k) == room'[k].nNotified > room[k].nNotified

C39_Step ==
    \A k \in RunIds :
        C39_Invoked(k)
            => /\ room[k].state = "connected"
               /\ ~room[k].closing
               /\ roomRef = k
               /\ run[k].isMounted

C39_NotificationSuppressed == [][C39_Step]_vars

\* C40: isCreatingRef is true only while a createAvatarSession request or a
\* room.connect call of the controller is in flight (so that a later run of
\* the mount effect on the same instance is not turned away for good)
C40_CreatingOnlyInFlight ==
    isCreatingRef => \E k \in RunIds : run[k].pc \in {"creating", "connecting"}

====
